---- MODULE Spec2Model ----
(***************************************************************************)
(* A model of bank-mcp's provider normalization and aggregation engine:    *)
(* the five provider adapters' normalizeTransaction, their pagination      *)
(* loops, httpFetch / fetchWithRetry, the TTL cache and the aggregating    *)
(* tools (listAccounts, listTransactions, getBalance).                     *)
(*                                                                         *)
(* Money is modelled exactly, as an integer number of minor units          *)
(* (10^-MaxScale of the currency unit); dates and times are integers.      *)
(***************************************************************************)
EXTENDS Integers, Sequences, FiniteSets, TLC

VARIABLES
    \* --- normalization (providers/*/index.ts: normalizeTransaction) ---
    raw,        \* the raw provider record handed to normalizeTransaction
    tx,         \* the normalized Transaction, or NoTx before the call
    \* --- one provider listTransactions call and the server it talks to ---
    provider,   \* the adapter: "enable-banking", "plaid", "tink" or "teller"
    serverTx,   \* the account's raw records on the server, in the server's order
    serverM,    \* how many records the server puts on one page
    filter,     \* the TransactionFilter argument
    ppc,        \* position in listTransactions: start, request, await, finish, done, failed
    cursor,     \* continuationKey / offset / pageToken / fromId ({} = undefined)
    inflight,   \* the cursor carried by the request now awaiting its response
    requests,   \* the cursors of the page requests issued so far, in order
    allTx,      \* the loop's accumulator
    result,     \* what listTransactions returned
    \* --- one outbound call through httpFetch / fetchWithRetry / tellerFetch ---
    caller,     \* who makes the call: "fetchWithRetry" or an adapter's page fetch
    rpc,        \* position: http (inside the fetch loop), wait (backing off), done
    attempt,    \* fetchWithRetry's loop index
    httpAttempt,\* httpFetch's loop index
    lastError,  \* httpFetch's lastError
    history,    \* the outcome of every network request made, in order
    waited,     \* the delays fetchWithRetry has slept, in order
    outcome,    \* what the call returned or threw
    \* --- the TTL cache (utils/cache.ts) ---
    store,      \* Cache.store: key -> [value, expiresAt]
    now,        \* Date.now()
    got,        \* the get that has just returned: its key and its result
    written,    \* per key, the last set since the last clear: value, time, ttl
    \* --- one aggregator tool call after another (tools/*.ts) ---
    args,       \* the tool and its arguments; the same call is repeated
    bank,       \* the Enable Banking server: account uid -> raw records
    apc,        \* position in the tool: idle, conn, awaitAccounts, fetch, await, finish, done
    conns,      \* the connections the call resolved
    ci,         \* index of the connection being processed
    accountIds, \* the account ids of that connection
    ai,         \* index of the account being processed
    collected,  \* allTx / allBalances / allAccounts
    aoutcome,   \* what the tool returned (status ok) or threw (status error)
    providerCalls, \* the provider calls made by the current tool call
    checks,     \* the cache lookups of the current tool call: key, hit, age of the entry
    failedFetch,\* the (connection, account) whose fetch threw in the current call
    ticks,      \* how many times the clock has been advanced
    \* --- one operation of one provider adapter (providers/*/index.ts) ---
    adapter,    \* the adapter the operation belongs to
    operation,  \* listAccounts, listTransactions or getBalance
    rawConfig,  \* the connection config handed to the operation
    opc,        \* position: idle, called, parsed, request, done
    sent,       \* outbound requests made so far
    tries,      \* httpFetch attempt of the current request (0 before the first)
    opResult,   \* none, ok, config_error, key_error or error
    \* --- the id normalizeTransaction gives one raw record, call after call ---
    idProvider, \* the adapter whose normalizeTransaction builds the id
    idRaw,      \* the raw record: entry_reference, transaction_id, native id
    idAccount,  \* the accountId argument
    idNow,      \* Date.now() when normalizeTransaction runs
    idLog,      \* the ids the calls so far gave this record, in order
    \* --- the amount / type filters applied to one list of transactions ---
    fltTxs,     \* the transactions handed to the filter, in order
    fltFilter,  \* the TransactionFilter
    fltPc,      \* idle, ready, or the path that filtered: tool, adapter
    fltResult,  \* the filtered list
    \* --- one tools/call request in the server (server.ts) ---
    callName,   \* request.params.name
    callArgs,   \* request.params.arguments: absent, empty, valid or invalid
    callPc,     \* idle, received, awaiting or responded
    callRaised, \* what the awaited handler raised ({} = it resolved)
    callResponse,\* the tool response returned to the caller
    \* --- two listTransactions calls in flight on one account ---
    rcFilter,   \* per caller: the {dateFrom, dateTo} of its call
    rcPc,       \* per caller: idle, start, fetching or done
    rcTxs,      \* per caller: the list its own fetch returned ({} = no fetch returned)
    rcAll,      \* per caller: the allTx it returns
    rcServer,   \* how many transactions the bank holds now
    rcWrites,   \* the cache.set calls made so far, in order
    \* --- waitForCallback: the local OAuth callback server ---
    cbServer,   \* the http server: idle, starting, listening or closed
    cbTimer,    \* the timeout timer: unset, armed, cleared or fired
    settled,    \* the settled flag of waitForCallback
    cbOutcome,  \* the promise: pending, resolved with a code, or rejected with an error
    cbCalls,    \* the resolve / reject calls made so far, in order
    cbRequests, \* the requests handled so far with their response status, in order
    \* --- the Plaid pagination loop against a server that may send any page ---
    plTotal,    \* total_transactions, the same in every response
    plOffset,   \* the loop variable offset
    plPc,       \* idle, request (about to post), await (request in flight) or done
    plPage,     \* the number of records on the page received last
    \* --- the cache keys of two requests to one tool ---
    keyTool,    \* the tool whose cache key is built
    keyReqs,    \* two requests: connection id, account id, dateFrom, dateTo
    keyPc,      \* idle, ready or done
    keys,       \* the cache keys built for the two requests
    \* --- the arrays one cache entry and the calls that read it share ---
    alTool,     \* the tool called
    alFilter,   \* the TransactionFilter of the call
    alPc,       \* idle, start, lookup, finish or done
    alHeap,     \* the arrays: cached (the entry value), filtered, allTx, result
    alAll,      \* which array the call collects into and sorts
    alReturned, \* which array the call returns
    alLive,     \* whether the cache holds the entry
    alInserted, \* the list the provider returned when the entry was inserted
    alServed,   \* none, hit or miss: how the current call got its data
    alCalls     \* the number of calls made

None == "none"

\* "no transaction yet": normalizeTransaction has not returned
NoTx == [amount |-> 0, type |-> None]

normVars == <<raw, tx>>
pageVars == <<provider, serverTx, serverM, filter, ppc, cursor, inflight, requests, allTx, result>>
retryVars == <<caller, rpc, attempt, httpAttempt, lastError, history, waited, outcome>>
cacheVars == <<store, now, got, written>>
aggVars == <<args, bank, apc, conns, ci, accountIds, ai, collected, aoutcome,
             providerCalls, checks, failedFetch, ticks>>
provVars == <<adapter, operation, rawConfig, opc, sent, tries, opResult>>
idVars == <<idProvider, idRaw, idAccount, idNow, idLog>>
fltVars == <<fltTxs, fltFilter, fltPc, fltResult>>
callVars == <<callName, callArgs, callPc, callRaised, callResponse>>
raceVars == <<rcFilter, rcPc, rcTxs, rcAll, rcServer, rcWrites>>
cbVars == <<cbServer, cbTimer, settled, cbOutcome, cbCalls, cbRequests>>
plVars == <<plTotal, plOffset, plPc, plPage>>
keyVars == <<keyTool, keyReqs, keyPc, keys>>
alVars == <<alTool, alFilter, alPc, alHeap, alAll, alReturned, alLive, alInserted, alServed, alCalls>>
vars == <<normVars, pageVars, retryVars, cacheVars, aggVars, provVars, idVars, fltVars, callVars, raceVars, cbVars, plVars, keyVars, alVars>>

normOthers == <<pageVars, retryVars, cacheVars, aggVars, provVars, idVars, fltVars, callVars, raceVars, cbVars, plVars, keyVars, alVars>>
pageOthers == <<normVars, retryVars, cacheVars, aggVars, provVars, idVars, fltVars, callVars, raceVars, cbVars, plVars, keyVars, alVars>>
retryOthers == <<normVars, pageVars, cacheVars, aggVars, provVars, idVars, fltVars, callVars, raceVars, cbVars, plVars, keyVars, alVars>>
cacheOthers == <<normVars, pageVars, retryVars, aggVars, provVars, idVars, fltVars, callVars, raceVars, cbVars, plVars, keyVars, alVars>>
aggOthers == <<normVars, pageVars, retryVars, provVars, idVars, fltVars, callVars, raceVars, cbVars, plVars, keyVars, alVars>>
idOthers == <<normVars, pageVars, retryVars, cacheVars, aggVars, provVars, fltVars, callVars, raceVars, cbVars, plVars, keyVars, alVars>>
provOthers == <<normVars, pageVars, retryVars, cacheVars, aggVars, idVars, fltVars, callVars, raceVars, cbVars, plVars, keyVars, alVars>>
callOthers == <<normVars, pageVars, retryVars, cacheVars, aggVars, provVars, idVars, fltVars, raceVars, cbVars, plVars, keyVars, alVars>>
fltOthers == <<normVars, pageVars, retryVars, cacheVars, aggVars, provVars, idVars, callVars, raceVars, cbVars, plVars, keyVars, alVars>>
cbOthers == <<normVars, pageVars, retryVars, cacheVars, aggVars, provVars, idVars, fltVars, callVars, raceVars, plVars, keyVars, alVars>>
raceOthers == <<normVars, pageVars, retryVars, aggVars, provVars, idVars, fltVars, callVars, cbVars, plVars, keyVars, alVars, got, written>>
keyOthers == <<normVars, pageVars, retryVars, cacheVars, aggVars, provVars, idVars, fltVars, callVars, raceVars, cbVars, plVars, alVars>>
plOthers == <<normVars, pageVars, retryVars, cacheVars, aggVars, provVars, idVars, fltVars, callVars, raceVars, cbVars, keyVars, alVars>>
alOthers == <<normVars, pageVars, retryVars, cacheVars, aggVars, provVars, idVars, fltVars, callVars, raceVars, cbVars, plVars, keyVars>>

\* An optional value is a set: {} is undefined, {v} is the value v
Has(x) == x # {}
Val(x) == CHOOSE v \in x : TRUE
Opt(S) == {{}} \cup {{v} : v \in S}

Min(a, b) == IF a < b THEN a ELSE b
Max(a, b) == IF a > b THEN a ELSE b

----------------------------------------------------------------------------
(* The rest state of each part of the model: a specification that exercises
   one part keeps the other parts here *)

NoFilter ==
    [dateFrom |-> {}, dateTo |-> {}, amountMin |-> {}, amountMax |-> {},
     type |-> None, limit |-> {}]

NoError == [kind |-> None, status |-> 0, text429 |-> FALSE, textHTTP4 |-> FALSE]

NormIdle == raw = [provider |-> "plaid", amount |-> 0] /\ tx = NoTx

PageIdle ==
    /\ provider = "enable-banking" /\ serverTx = <<>> /\ serverM = 1
    /\ filter = NoFilter /\ ppc = "idle" /\ cursor = {} /\ inflight = {}
    /\ requests = <<>> /\ allTx = <<>> /\ result = <<>>

NoGet == [key |-> None, value |-> {}]

CacheIdle == store = <<>> /\ now = 0 /\ got = NoGet /\ written = <<>>

NoArgs ==
    [tool |-> None, connectionId |-> {}, accountId |-> {}, dateFrom |-> {},
     dateTo |-> {}, amountMin |-> {}, amountMax |-> {}, type |-> None, limit |-> {}]

NoOutcome == [status |-> None, value |-> <<>>, error |-> None]

AggIdle ==
    /\ args = NoArgs /\ bank = <<>> /\ apc = "idle" /\ conns = <<>> /\ ci = 0
    /\ accountIds = <<>> /\ ai = 0 /\ collected = <<>> /\ aoutcome = NoOutcome
    /\ providerCalls = <<>> /\ checks = <<>> /\ failedFetch = <<>> /\ ticks = 0

ProvIdle ==
    /\ adapter = "mock" /\ operation = "listAccounts" /\ rawConfig = <<>>
    /\ opc = "idle" /\ sent = 0 /\ tries = 0 /\ opResult = None

IdIdle ==
    /\ idProvider = "plaid" /\ idAccount = None /\ idNow = 0 /\ idLog = <<>>
    /\ idRaw = [entry_reference |-> {}, transaction_id |-> {}, id |-> None]

FltIdle ==
    /\ fltTxs = <<>> /\ fltFilter = NoFilter /\ fltPc = "idle" /\ fltResult = <<>>

NoResponse == [isError |-> FALSE, code |-> None, message |-> None, text |-> None]

CallIdle ==
    /\ callName = None /\ callArgs = "absent" /\ callPc = "idle"
    /\ callRaised = {} /\ callResponse = NoResponse

RaceCallers == {1, 2}

RaceIdle ==
    /\ rcFilter = [c \in RaceCallers |-> NoFilter]
    /\ rcPc = [c \in RaceCallers |-> "idle"]
    /\ rcTxs = [c \in RaceCallers |-> {}]
    /\ rcAll = [c \in RaceCallers |-> <<>>]
    /\ rcServer = 0 /\ rcWrites = <<>>

NoCallback == [status |-> "pending", code |-> None, error |-> None]

CbIdle ==
    /\ cbServer = "idle" /\ cbTimer = "unset" /\ settled = FALSE
    /\ cbOutcome = NoCallback /\ cbCalls = <<>> /\ cbRequests = <<>>

PlIdle == plTotal = 0 /\ plOffset = 0 /\ plPc = "idle" /\ plPage = 0

NoKeyRequest == [conn |-> None, acc |-> None, dateFrom |-> None, dateTo |-> None]

KeyIdle ==
    /\ keyTool = None /\ keyReqs = <<NoKeyRequest, NoKeyRequest>>
    /\ keyPc = "idle" /\ keys = <<None, None>>

NoArrays == [cached |-> <<>>, filtered |-> <<>>, allTx |-> <<>>, result |-> <<>>]

AlIdle ==
    /\ alTool = None /\ alFilter = NoFilter /\ alPc = "idle" /\ alHeap = NoArrays
    /\ alAll = "allTx" /\ alReturned = "allTx" /\ alLive = FALSE
    /\ alInserted = <<>> /\ alServed = None /\ alCalls = 0

RetryIdle ==
    /\ caller = "fetchWithRetry" /\ rpc = "idle" /\ attempt = 0 /\ httpAttempt = 0
    /\ lastError = NoError /\ history = <<>> /\ waited = <<>> /\ outcome = NoError


----------------------------------------------------------------------------
(* Bounds of the model *)

MaxAmount == 2      \* raw magnitudes range over -MaxAmount..MaxAmount
MaxScale == 2       \* Tink scales range over 0..MaxScale; one minor unit is 10^-MaxScale
MaxDay == 3         \* the mock generator's days range over 0..MaxDay
MaxPages == 2       \* the server holds at most MaxPages full pages of records
MaxPerPage == 2     \* a page holds at most MaxPerPage records
MaxDate == 2        \* dates range over 0..MaxDate; MaxDate is today
MaxCacheTime == 4   \* the clock of the cache specification runs over 0..MaxCacheTime
MaxTtl == 2         \* the ttl of a direct set ranges over 0..MaxTtl
MaxTicks == 2       \* the aggregator's clock is advanced at most MaxTicks times
MaxSent == 3        \* an adapter operation sends at most MaxSent requests
MaxIdNow == 2       \* the clock of the id specification runs over 0..MaxIdNow
MaxIdCalls == 2     \* one raw record is normalized at most MaxIdCalls times
MaxFltTxs == 3      \* the filtered list holds at most MaxFltTxs transactions
MaxRaceWrites == 3  \* the two callers make at most MaxRaceWrites cache writes
MaxCallbackRequests == 2 \* the callback server handles at most MaxCallbackRequests requests
MaxPlaidTotal == 12 \* total_transactions ranges over 0..MaxPlaidTotal
MaxAliasCalls == 3  \* one cache entry is read by at most MaxAliasCalls calls

RECURSIVE Pow10(_)
Pow10(n) == IF n = 0 THEN 1 ELSE 10 * Pow10(n - 1)

Abs(x) == IF x < 0 THEN -x ELSE x

\* parseFloat of a decimal string holding whole currency units, in minor units
ParseFloat(a) == a * Pow10(MaxScale)

----------------------------------------------------------------------------
(* Amount Normalizer and the adapters' normalizeTransaction *)

\* Enable Banking: unsigned (or signed) decimal string + credit_debit_indicator
EBNormalize(r) ==
    LET amount == ParseFloat(r.amount)
        cdi == r.cdi
        isDebit == cdi = "DBIT" \/ amount < 0
    IN  [amount |-> IF isDebit THEN -Abs(amount) ELSE Abs(amount),
         type |-> IF isDebit THEN "debit" ELSE "credit"]

\* Plaid: signed number, positive = money leaving the account
PlaidNormalize(r) ==
    LET amount == -ParseFloat(r.amount)
        isDebit == amount < 0
    IN  [amount |-> amount,
         type |-> IF isDebit THEN "debit" ELSE "credit"]

\* Tink: fixed-point {unscaledValue, scale}, flat or nested under `value`
\* (nested: scale is parsed with parseInt; flat: scale counts only when it is
\* a number, otherwise 0)
TinkParseAmount(a) ==
    LET scale == IF a.nested
                 THEN a.scale
                 ELSE IF a.scaleIsNumber THEN a.scale ELSE 0
    IN  a.unscaledValue * Pow10(MaxScale - scale)

\* (mutant: only the direction code decides, the sign of a DEFAULT magnitude is ignored)
TinkNormalizeByCode(r) ==
    LET rawAmount == TinkParseAmount(r.amount)
        isDebit == r.type = "DEBIT"
        amount == IF isDebit /\ rawAmount > 0 THEN -rawAmount ELSE rawAmount
    IN  [amount |-> amount,
         type |-> IF isDebit THEN "debit" ELSE "credit"]

TinkNormalize(r) ==
    LET rawAmount == TinkParseAmount(r.amount)
        isDebit == r.type = "DEBIT" \/ (r.type = "DEFAULT" /\ rawAmount < 0)
        amount == IF isDebit /\ rawAmount > 0 THEN -rawAmount ELSE rawAmount
    IN  [amount |-> amount,
         type |-> IF isDebit THEN "debit" ELSE "credit"]

\* Teller: pre-signed decimal string
TellerNormalize(r) ==
    LET amount == ParseFloat(r.amount)
        isDebit == amount < 0
    IN  [amount |-> amount,
         type |-> IF isDebit THEN "debit" ELSE "credit"]

\* Mock: generateMockTransactions; merchants as <<min, max>> in minor units
\* of 1/100 (29.99 -> 2999), incomes as amounts
MockMerchants ==
    << <<3000, 18000>>, <<4000, 20000>>, <<500, 4500>>, <<15000, 35000>>,
       <<2000, 50000>>, <<4300, 4300>>, <<2999, 2999>>, <<18000, 18000>>,
       <<7900, 7900>>, <<6900, 6900>> >>

MockIncomes == <<1250000, 350000>>

MockNormalize(r) ==
    IF r.kind = "expense"
    THEN LET merchant == MockMerchants[((r.day * 3 + r.i) % Len(MockMerchants)) + 1]
             amount == IF merchant[1] = merchant[2]
                       THEN merchant[1]
                       ELSE merchant[1]
                            + ((r.day * 7 + r.i * 13) % ((merchant[2] - merchant[1]) \div 100)) * 100
         IN  [amount |-> -amount, type |-> "debit"]
    ELSE [amount |-> MockIncomes[r.income], type |-> "credit"]

Normalize(r) ==
    CASE r.provider = "enable-banking" -> EBNormalize(r)
      [] r.provider = "plaid" -> PlaidNormalize(r)
      [] r.provider = "tink" -> TinkNormalize(r)
      [] r.provider = "teller" -> TellerNormalize(r)
      [] r.provider = "mock" -> MockNormalize(r)

RawAmounts == (-MaxAmount)..MaxAmount

RawRecords ==
    [provider : {"enable-banking"}, amount : RawAmounts, cdi : {"DBIT", "CRDT", ""}]
    \cup [provider : {"plaid"}, amount : RawAmounts]
    \cup [provider : {"tink"},
          amount : [unscaledValue : RawAmounts, scale : 0..MaxScale,
                    nested : BOOLEAN, scaleIsNumber : BOOLEAN],
          type : {"DEBIT", "CREDIT", "DEFAULT", None}]
    \cup [provider : {"teller"}, amount : RawAmounts]
    \cup {[provider |-> "mock", kind |-> "expense", day |-> d, i |-> i] :
            d \in 0..MaxDay, i \in 0..2}
    \cup [provider : {"mock"}, kind : {"income"}, income : 1..Len(MockIncomes)]

----------------------------------------------------------------------------
(* TransactionFilter, and the filters every adapter applies after its loop *)

\* (mutant: the lower bound is exclusive)
SelectMinStrict(txs, f) ==
    IF Has(f.amountMin)
    THEN SelectSeq(txs, LAMBDA t : Abs(t.amount) > Val(f.amountMin))
    ELSE txs

SelectMin(txs, f) ==
    IF Has(f.amountMin)
    THEN SelectSeq(txs, LAMBDA t : Abs(t.amount) >= Val(f.amountMin))
    ELSE txs

SelectMax(txs, f) ==
    IF Has(f.amountMax)
    THEN SelectSeq(txs, LAMBDA t : Abs(t.amount) <= Val(f.amountMax))
    ELSE txs

SelectType(txs, f) ==
    IF f.type # None
    THEN SelectSeq(txs, LAMBDA t : t.type = f.type)
    ELSE txs

\* Array.prototype.slice(0, end)
SliceTo(s, end) ==
    LET n == Len(s)
        e == IF end < 0 THEN Max(n + end, 0) ELSE Min(end, n)
    IN  SubSeq(s, 1, e)

\* `if (filter?.limit)`: an undefined limit and a limit of 0 are both falsy
Truthy(limit) == Has(limit) /\ Val(limit) # 0

ProviderFilters(txs, f) ==
    LET filtered == SelectType(SelectMax(SelectMin(txs, f), f), f)
    IN  IF Truthy(f.limit) THEN SliceTo(filtered, Val(f.limit)) ELSE filtered

MapSeq(F(_), s) == [i \in 1..Len(s) |-> F(s[i])]

----------------------------------------------------------------------------
(* The server behind one account, and the four cursor protocols *)

PagedProviders == {"enable-banking", "plaid", "tink", "teller"}

Today == MaxDate

\* defaultDateFrom(90): date 0 stands for "more than 90 days ago"
PlaidDefaultFrom == 1

\* Request page sizes, scaled down (the code asks Teller for 250 records and
\* Plaid for 500)
tellerPageSize == MaxPerPage
plaidPageSize == MaxPerPage

\* The i-th record of the account in the provider's own amount encoding; odd
\* records are expenses of i currency units, even ones incomes
ServerRecord(p, i, d) ==
    LET a == IF i % 2 = 1 THEN -i ELSE i
        ident == [provider |-> p, id |-> i, date |-> d]
    IN  CASE p = "enable-banking" ->
               ident @@ [amount |-> Abs(a), cdi |-> IF a < 0 THEN "DBIT" ELSE "CRDT"]
          [] p = "plaid" -> ident @@ [amount |-> -a]
          [] p = "tink" ->
               ident @@ [amount |-> [unscaledValue |-> Abs(a), scale |-> 0,
                                     nested |-> TRUE, scaleIsNumber |-> FALSE],
                         type |-> IF a < 0 THEN "DEBIT" ELSE "CREDIT"]
          [] p = "teller" -> ident @@ [amount |-> a]

\* Servers list an account's records newest first
DateSeqs(n) ==
    {s \in [1..n -> 0..MaxDate] : \A i \in 1..(n - 1) : s[i] >= s[i + 1]}

ServerData(p) ==
    UNION {{[i \in 1..n |-> ServerRecord(p, i, ds[i])] : ds \in DateSeqs(n)} :
            n \in 0..(MaxPages * MaxPerPage)}

InWindow(d, from, to) ==
    /\ Has(from) => d >= Val(from)
    /\ Has(to) => d <= Val(to)

\* The date window the adapter sends with each request
RequestFrom(p, f) ==
    IF p = "plaid" /\ ~Has(f.dateFrom) THEN {PlaidDefaultFrom} ELSE f.dateFrom

RequestTo(p, f) ==
    IF p = "plaid" /\ ~Has(f.dateTo) THEN {Today} ELSE f.dateTo

\* What the server exposes to this call: Enable Banking, Plaid and Tink filter
\* by the requested date window, Teller has no server-side date filter
Exposed(p, f) ==
    IF p = "teller"
    THEN serverTx
    ELSE SelectSeq(serverTx,
                   LAMBDA r : InWindow(r.date, RequestFrom(p, f), RequestTo(p, f)))

\* continuation_key / nextPageToken: the response to token c (an offset into
\* the exposed list; no token = the first page)
TokenPage(p, f, c) ==
    LET E == Exposed(p, f)
        start == IF Has(c) THEN Val(c) ELSE 0
        stop == Min(start + serverM, Len(E))
    IN  [transactions |-> SubSeq(E, start + 1, stop),
         next |-> IF stop < Len(E) THEN {stop} ELSE {}]

\* Plaid /transactions/get with {count, offset}
OffsetPage(p, f, offset) ==
    LET E == Exposed(p, f)
        stop == Min(offset + Min(plaidPageSize, serverM), Len(E))
    IN  [transactions |-> SubSeq(E, offset + 1, stop),
         total_transactions |-> Len(E)]

\* Teller /transactions?count=N&from_id=X: up to N records after record X
IndexOfId(E, id) ==
    IF \E i \in 1..Len(E) : E[i].id = id
    THEN CHOOSE i \in 1..Len(E) : E[i].id = id
    ELSE 0

FromIdPage(p, f, fromId) ==
    LET E == Exposed(p, f)
        start == IF Has(fromId) THEN IndexOfId(E, Val(fromId)) ELSE 0
    IN  SubSeq(E, start + 1, Min(start + tellerPageSize, Len(E)))

NormalizeTransaction(r) == [id |-> r.id, date |-> r.date] @@ Normalize(r)

----------------------------------------------------------------------------
(* listTransactions of one adapter, one step per request and per response *)

InitPage ==
    /\ NormIdle /\ RetryIdle /\ CacheIdle /\ AggIdle /\ ProvIdle /\ IdIdle /\ FltIdle /\ CallIdle /\ RaceIdle /\ CbIdle /\ PlIdle /\ KeyIdle /\ AlIdle
    /\ provider \in PagedProviders
    /\ serverTx \in ServerData(provider)
    /\ serverM \in IF provider = "teller" THEN {tellerPageSize} ELSE 1..MaxPerPage
    /\ filter = NoFilter /\ ppc = "start" /\ cursor = {} /\ inflight = {}
    /\ requests = <<>> /\ allTx = <<>> /\ result = <<>>

\* The call: config parsed, the loop variables initialised
ListStart ==
    /\ ppc = "start"
    /\ \E from \in Opt(1..MaxDate), to \in Opt(1..MaxDate) :
          filter' = [filter EXCEPT !.dateFrom = from, !.dateTo = to]
    /\ cursor' = IF provider = "plaid" THEN {0} ELSE {}
    /\ ppc' = IF provider = "teller" THEN "accounts" ELSE "request"
    /\ UNCHANGED <<pageOthers, provider, serverTx, serverM, inflight, requests, allTx, result>>

\* Teller: GET /accounts for the currency, before the first page
TellerFetchAccounts ==
    /\ ppc = "accounts"
    /\ ppc' = "request"
    /\ UNCHANGED <<pageOthers, provider, serverTx, serverM, filter, cursor, inflight,
                   requests, allTx, result>>

SendRequest ==
    /\ ppc = "request"
    /\ inflight' = cursor
    /\ requests' = Append(requests, cursor)
    /\ ppc' = "await"
    /\ UNCHANGED <<pageOthers, provider, serverTx, serverM, filter, cursor, allTx, result>>

\* (mutant: the continuation key is never followed)
EBResponseNoLoop ==
    /\ ppc = "await" /\ provider = "enable-banking"
    /\ LET data == TokenPage(provider, filter, inflight)
       IN  /\ allTx' = allTx \o MapSeq(NormalizeTransaction, data.transactions)
           /\ cursor' = data.next
           /\ ppc' = "finish"
    /\ UNCHANGED <<pageOthers, provider, serverTx, serverM, filter, inflight, requests, result>>

EBResponse ==
    /\ ppc = "await" /\ provider = "enable-banking"
    /\ LET data == TokenPage(provider, filter, inflight)
       IN  /\ allTx' = allTx \o MapSeq(NormalizeTransaction, data.transactions)
           /\ cursor' = data.next
           /\ ppc' = IF Has(data.next) THEN "request" ELSE "finish"
    /\ UNCHANGED <<pageOthers, provider, serverTx, serverM, filter, inflight, requests, result>>

\* (mutant: a later page is put in front of the earlier ones)
TinkResponsePrepend ==
    /\ ppc = "await" /\ provider = "tink"
    /\ LET data == TokenPage(provider, filter, inflight)
       IN  /\ allTx' = MapSeq(NormalizeTransaction, data.transactions) \o allTx
           /\ cursor' = data.next
           /\ ppc' = IF Has(data.next) THEN "request" ELSE "finish"
    /\ UNCHANGED <<pageOthers, provider, serverTx, serverM, filter, inflight, requests, result>>

TinkResponse ==
    /\ ppc = "await" /\ provider = "tink"
    /\ LET data == TokenPage(provider, filter, inflight)
       IN  /\ allTx' = allTx \o MapSeq(NormalizeTransaction, data.transactions)
           /\ cursor' = data.next
           /\ ppc' = IF Has(data.next) THEN "request" ELSE "finish"
    /\ UNCHANGED <<pageOthers, provider, serverTx, serverM, filter, inflight, requests, result>>

\* (mutant: the loop ends on an empty page only)
PlaidResponseUntilEmpty ==
    /\ ppc = "await" /\ provider = "plaid"
    /\ LET data == OffsetPage(provider, filter, Val(inflight))
           offset == Val(cursor) + Len(data.transactions)
       IN  /\ allTx' = allTx \o MapSeq(NormalizeTransaction, data.transactions)
           /\ cursor' = {offset}
           /\ ppc' = IF Len(data.transactions) = 0 THEN "finish" ELSE "request"
    /\ UNCHANGED <<pageOthers, provider, serverTx, serverM, filter, inflight, requests, result>>

PlaidResponse ==
    /\ ppc = "await" /\ provider = "plaid"
    /\ LET data == OffsetPage(provider, filter, Val(inflight))
           offset == Val(cursor) + Len(data.transactions)
       IN  /\ allTx' = allTx \o MapSeq(NormalizeTransaction, data.transactions)
           /\ cursor' = {offset}
           /\ ppc' = IF offset >= data.total_transactions THEN "finish" ELSE "request"
    /\ UNCHANGED <<pageOthers, provider, serverTx, serverM, filter, inflight, requests, result>>

\* Teller filters dates itself and stops on an empty page, a short page, or
\* a full page whose last record is older than dateFrom
TellerKeep(page, f) ==
    SelectSeq(MapSeq(NormalizeTransaction, page),
              LAMBDA t : ~(Has(f.dateFrom) /\ t.date < Val(f.dateFrom))
                         /\ ~(Has(f.dateTo) /\ t.date > Val(f.dateTo)))

\* (mutant: a short page does not end the loop, only an empty one does)
TellerResponseUntilEmpty ==
    /\ ppc = "await" /\ provider = "teller"
    /\ LET page == FromIdPage(provider, filter, inflight)
           last == page[Len(page)]
       IN  IF Len(page) = 0
           THEN /\ ppc' = "finish"
                /\ UNCHANGED <<allTx, cursor>>
           ELSE /\ allTx' = allTx \o TellerKeep(page, filter)
                /\ cursor' = {last.id}
                /\ ppc' = IF Has(filter.dateFrom) /\ last.date < Val(filter.dateFrom)
                          THEN "finish"
                          ELSE "request"
    /\ UNCHANGED <<pageOthers, provider, serverTx, serverM, filter, inflight, requests, result>>

TellerResponse ==
    /\ ppc = "await" /\ provider = "teller"
    /\ LET page == FromIdPage(provider, filter, inflight)
           last == page[Len(page)]
       IN  IF Len(page) = 0
           THEN /\ ppc' = "finish"
                /\ UNCHANGED <<allTx, cursor>>
           ELSE /\ allTx' = allTx \o TellerKeep(page, filter)
                /\ IF Len(page) < tellerPageSize
                   THEN ppc' = "finish" /\ UNCHANGED cursor
                   ELSE /\ cursor' = {last.id}
                        /\ ppc' = IF Has(filter.dateFrom) /\ last.date < Val(filter.dateFrom)
                                  THEN "finish"
                                  ELSE "request"
    /\ UNCHANGED <<pageOthers, provider, serverTx, serverM, filter, inflight, requests, result>>

\* The awaited fetch rejects: listTransactions throws
FetchFail ==
    /\ ppc \in {"accounts", "await"}
    /\ ppc' = "failed"
    /\ UNCHANGED <<pageOthers, provider, serverTx, serverM, filter, cursor, inflight,
                   requests, allTx, result>>

FilterAmounts == {2 * Pow10(MaxScale)}

\* The local filters after the loop, and the return
Finish ==
    /\ ppc = "finish"
    /\ \E min \in Opt(FilterAmounts), max \in Opt(FilterAmounts),
          type \in {None, "debit"}, limit \in Opt({1}) :
          /\ filter' = [filter EXCEPT !.amountMin = min, !.amountMax = max,
                                      !.type = type, !.limit = limit]
          /\ result' = ProviderFilters(allTx, filter')
    /\ ppc' = "done"
    /\ UNCHANGED <<pageOthers, provider, serverTx, serverM, cursor, inflight, requests, allTx>>

NextPage ==
    \/ ListStart
    \/ TellerFetchAccounts
    \/ SendRequest
    \/ EBResponse
    \/ TinkResponse
    \/ PlaidResponse
    \/ TellerResponse
    \/ FetchFail
    \/ Finish

SpecPage == InitPage /\ [][NextPage]_vars

NoLocalFilter(f) == ~Has(f.amountMin) /\ ~Has(f.amountMax) /\ f.type = None /\ ~Has(f.limit)

AllInWindow(f) ==
    \A i \in 1..Len(serverTx) : InWindow(serverTx[i].date, f.dateFrom, f.dateTo)

\* C2 as stated: with no amount/type/limit filter, listTransactions returns
\* every record the server exposes over its pages, each exactly once, in
\* cursor order (N pages of M records give N*M records).
C2_AllPagesAsStated ==
    (ppc = "done" /\ NoLocalFilter(filter))
        => result = MapSeq(NormalizeTransaction, Exposed(provider, filter))

\* C2 amended: the same, for Teller only when every record the server holds
\* lies inside the requested date window (Teller's date filter is client-side).
C2_AllPagesOnce ==
    (ppc = "done" /\ NoLocalFilter(filter) /\ (provider = "teller" => AllInWindow(filter)))
        => result = MapSeq(NormalizeTransaction, Exposed(provider, filter))

C2_Witness ==
    /\ ppc = "done" /\ NoLocalFilter(filter)
    /\ provider = "teller" /\ Has(filter.dateFrom) /\ AllInWindow(filter)
    /\ Len(result) = MaxPages * MaxPerPage
    /\ Len(requests) = MaxPages + 1

----------------------------------------------------------------------------
(* httpFetch, fetchWithRetry and tellerFetch: one outbound call *)

\* What one network request can come to.  An error's message is
\* "HTTP <status> <statusText>: <body>" for a response that is not ok, and the
\* thrown error's own text otherwise; text429 / textHTTP4 say whether the free
\* text of the message (body, host, parser complaint) contains "429" / "HTTP 4".
Ok == [kind |-> "ok", status |-> 200, text429 |-> FALSE, textHTTP4 |-> FALSE]

Statuses == {401, 404, 429, 500}

Errors ==
    [kind : {"http"}, status : Statuses, text429 : BOOLEAN, textHTTP4 : BOOLEAN]
    \cup [kind : {"network", "malformed"}, status : {0},
          text429 : BOOLEAN, textHTTP4 : BOOLEAN]

Outcomes == {Ok} \cup Errors

\* msg.includes("429")
Includes429(e) == (e.kind = "http" /\ e.status = 429) \/ e.text429

\* (mutant: no error message counts as a client error)
IncludesHTTP4Never(e) == FALSE

\* lastError.message.includes("HTTP 4")
IncludesHTTP4(e) == (e.kind = "http" /\ e.status \div 100 = 4) \/ e.textHTTP4

delays == <<5000, 15000, 30000>>

DefaultRetries == 1
PlaidRetries == 2
TinkRetries == 2

\* The `retries` option each caller passes to httpFetch
Retries(c) ==
    CASE c = "plaid" -> PlaidRetries
      [] c = "tink" -> TinkRetries
      [] OTHER -> DefaultRetries

Callers == {"fetchWithRetry", "enable-banking", "plaid", "tink", "teller"}

InitRetry ==
    /\ NormIdle /\ PageIdle /\ CacheIdle /\ AggIdle /\ ProvIdle /\ IdIdle /\ FltIdle /\ CallIdle /\ RaceIdle /\ CbIdle /\ PlIdle /\ KeyIdle /\ AlIdle
    /\ caller \in Callers /\ rpc = "http" /\ attempt = 0 /\ httpAttempt = 0
    /\ lastError = NoError /\ history = <<>> /\ waited = <<>> /\ outcome = NoError

\* fetchWithRetry's catch block, entered with the error httpFetch threw
WrapperCatch(err) ==
    LET isRateLimit == Includes429(err)
    IN  IF ~isRateLimit \/ attempt >= Len(delays)
        THEN rpc' = "done" /\ outcome' = err
        ELSE rpc' = "wait" /\ outcome' = outcome

\* httpFetch throws err to its caller
HttpThrow(err) ==
    IF caller = "fetchWithRetry"
    THEN WrapperCatch(err)
    ELSE rpc' = "done" /\ outcome' = err

\* One iteration of httpFetch's loop: a request, and what follows from it
HttpIteration ==
    /\ rpc = "http" /\ caller # "teller"
    /\ httpAttempt < Retries(caller)
    /\ \E o \in Outcomes :
          /\ history' = Append(history, o)
          /\ IF o = Ok
             THEN /\ rpc' = "done" /\ outcome' = Ok
                  /\ UNCHANGED <<lastError, httpAttempt>>
             ELSE /\ lastError' = o
                  /\ IF IncludesHTTP4(o)
                     THEN HttpThrow(o) /\ UNCHANGED httpAttempt
                     ELSE /\ httpAttempt' = httpAttempt + 1
                          /\ IF httpAttempt + 1 < Retries(caller)
                             THEN UNCHANGED <<rpc, outcome>>
                             ELSE HttpThrow(o)
    /\ UNCHANGED <<retryOthers, caller, attempt, waited>>

\* fetchWithRetry sleeps delays[attempt], then loops
RetryWait ==
    /\ rpc = "wait"
    /\ waited' = Append(waited, delays[attempt + 1])
    /\ attempt' = attempt + 1
    /\ httpAttempt' = 0
    /\ rpc' = "http"
    /\ UNCHANGED <<retryOthers, caller, lastError, history, outcome>>

\* tellerFetch: a single request, resolved or rejected
TellerFetch ==
    /\ rpc = "http" /\ caller = "teller"
    /\ \E o \in Outcomes :
          /\ history' = Append(history, o)
          /\ outcome' = o
    /\ rpc' = "done"
    /\ UNCHANGED <<retryOthers, caller, attempt, httpAttempt, lastError, waited>>

NextRetry ==
    \/ HttpIteration
    \/ RetryWait
    \/ TellerFetch

SpecRetry == InitRetry /\ [][NextRetry]_vars

RateLimit(e) == e.kind = "http" /\ e.status = 429

\* C4: fetchWithRetry returns the success of attempt 3 after rate limits on
\* attempts 1 and 2, having made exactly 3 attempts (so it never gives up
\* after one or two rate limits), and an attempt 1 that fails with an error
\* other than a rate limit ends the call with that error after exactly 1 attempt.
C4_RetryAsStated ==
    caller = "fetchWithRetry" =>
        /\ (rpc = "done" /\ Len(history) \in 1..2)
              => ~(\A i \in 1..Len(history) : RateLimit(history[i]))
        /\ (Len(history) >= 3 /\ RateLimit(history[1]) /\ RateLimit(history[2])
                /\ history[3] = Ok)
              => (rpc = "done" /\ outcome = Ok /\ Len(history) = 3)
        /\ (Len(history) >= 1 /\ history[1] # Ok /\ ~RateLimit(history[1]))
              => (rpc = "done" /\ outcome = history[1] /\ Len(history) = 1)

\* The error kinds of the provider contract
Auth(e) == e.kind = "http" /\ e.status = 401
NotFound(e) == e.kind = "http" /\ e.status = 404
Malformed(e) == e.kind = "malformed"
Network(e) == e.kind = "network"

\* The attempt count of an adapter's page-fetch path
AttemptBound(c) == IF c = "teller" THEN 1 ELSE Retries(c)

\* C5: on an adapter's page-fetch path an auth, not-found or malformed-response
\* failure is never retried (one request, the error propagates), and a call
\* that ends in a network or rate-limit error has used up the attempt count.
C5_RetryClassesAsStated ==
    (caller # "fetchWithRetry" /\ rpc = "done") =>
        /\ (Auth(history[1]) \/ NotFound(history[1]) \/ Malformed(history[1]))
              => (Len(history) = 1 /\ outcome = history[1])
        /\ (outcome # Ok /\ (Network(outcome) \/ RateLimit(outcome)))
              => Len(history) = AttemptBound(caller)

----------------------------------------------------------------------------
(* The TTL cache: class Cache *)

\* Map.set(key, value) / Map.delete(key) on a map held as a function
Put(m, key, value) ==
    [k \in DOMAIN m \cup {key} |-> IF k = key THEN value ELSE m[k]]

Delete(m, key) ==
    IF DOMAIN m \ {key} = {} THEN <<>> ELSE [k \in DOMAIN m \ {key} |-> m[k]]

\* (mutant: a hit pushes the expiry of the entry on)
CacheGetTouch(st, key, t) ==
    IF key \notin DOMAIN st
    THEN [value |-> {}, store |-> st]
    ELSE IF t > st[key].expiresAt
         THEN [value |-> {}, store |-> Delete(st, key)]
         ELSE [value |-> {st[key].value},
               store |-> Put(st, key, [st[key] EXCEPT !.expiresAt = @ + 1])]

\* (mutant: a get sweeps every expired entry out of the store)
CacheGetSweep(st, key, t) ==
    LET live == {k \in DOMAIN st : t <= st[k].expiresAt}
        swept == IF live = {} THEN <<>> ELSE [k \in live |-> st[k]]
    IN  [value |-> IF key \in live THEN {st[key].value} ELSE {}, store |-> swept]

\* (mutant: the expiry is not looked at)
CacheGetNoExpiry(st, key, t) ==
    IF key \notin DOMAIN st
    THEN [value |-> {}, store |-> st]
    ELSE [value |-> {st[key].value}, store |-> st]

\* get(key) at time t: the value returned ({} = undefined) and the store left
CacheGet(st, key, t) ==
    IF key \notin DOMAIN st
    THEN [value |-> {}, store |-> st]
    ELSE IF t > st[key].expiresAt
         THEN [value |-> {}, store |-> Delete(st, key)]
         ELSE [value |-> {st[key].value}, store |-> st]

\* (mutant: set leaves an entry that is already there alone)
CacheSetKeepFirst(st, key, value, ttlMs, t) ==
    IF key \in DOMAIN st THEN st ELSE Put(st, key, [value |-> value, expiresAt |-> t + ttlMs])

\* set(key, value, ttlMs) at time t
CacheSet(st, key, value, ttlMs, t) ==
    Put(st, key, [value |-> value, expiresAt |-> t + ttlMs])

CacheClear == <<>>

CacheKeys == {"k1", "k2"}
CacheValues == {"v1", "v2"}

InitCache ==
    /\ NormIdle /\ PageIdle /\ RetryIdle /\ AggIdle /\ ProvIdle /\ IdIdle /\ FltIdle /\ CallIdle /\ RaceIdle /\ CbIdle /\ PlIdle /\ KeyIdle /\ AlIdle
    /\ store = <<>> /\ now = 0 /\ got = NoGet /\ written = <<>>

Get ==
    /\ \E key \in CacheKeys :
          LET r == CacheGet(store, key, now)
          IN  /\ store' = r.store
              /\ got' = [key |-> key, value |-> r.value]
    /\ UNCHANGED <<cacheOthers, now, written>>

Set ==
    /\ \E key \in CacheKeys, value \in CacheValues, ttlMs \in 0..MaxTtl :
          /\ store' = CacheSet(store, key, value, ttlMs, now)
          /\ written' = Put(written, key, [value |-> value, at |-> now, ttl |-> ttlMs])
    /\ got' = NoGet
    /\ UNCHANGED <<cacheOthers, now>>

Clear ==
    /\ store' = CacheClear
    /\ written' = <<>>
    /\ got' = NoGet
    /\ UNCHANGED <<cacheOthers, now>>

\* Time passes
CacheTick ==
    /\ now < MaxCacheTime
    /\ now' = now + 1
    /\ got' = NoGet
    /\ UNCHANGED <<cacheOthers, store, written>>

NextCache ==
    \/ Get
    \/ Set
    \/ Clear
    \/ CacheTick

SpecCache == InitCache /\ [][NextCache]_vars

\* C6: a get(k) returns the value of the last set(k, v, ttl) (made at time t,
\* with no clear since) when it runs before t + ttl, returns absent when it
\* runs past t + ttl, and returns absent for a key never set or cleared.
C6_GetWithinTtl ==
    got.key # None =>
        IF got.key \in DOMAIN written
        THEN LET w == written[got.key]
             IN  /\ now < w.at + w.ttl => got.value = {w.value}
                 /\ now > w.at + w.ttl => got.value = {}
        ELSE got.value = {}

C6_Witness ==
    /\ got.key \in DOMAIN written
    /\ now > written[got.key].at + written[got.key].ttl
    /\ got.value = {}
    /\ written[got.key].ttl > 0

----------------------------------------------------------------------------
(* The aggregator tools: list_accounts, list_transactions, get_balance *)

\* TTL, in milliseconds
TtlAccounts == 60 * 60 * 1000
TtlTransactions == 15 * 60 * 1000
TtlBalances == 5 * 60 * 1000

\* loadConfig(): two connections, one to a bank, one to the mock provider
Config ==
    << [id |-> "eb", provider |-> "enable-banking"],
       [id |-> "mock", provider |-> "mock"] >>

\* getAllConnections(config)
GetAllConnections(config) == config

\* getConnection(config, id): {} stands for the thrown Error
GetConnection(config, id) ==
    IF Len(config) = 0
    THEN {}
    ELSE {config[i] : i \in {j \in 1..Len(config) : config[j].id = id}}

\* defaultDateFrom(config.defaults.transactionDays), today()
DefaultDateFrom == 1

\* The filter listTransactions builds from its arguments
AggFilter(a) ==
    [dateFrom |-> IF Has(a.dateFrom) THEN a.dateFrom ELSE {DefaultDateFrom},
     dateTo |-> IF Has(a.dateTo) THEN a.dateTo ELSE {Today},
     amountMin |-> a.amountMin, amountMax |-> a.amountMax,
     type |-> a.type, limit |-> a.limit]

\* applyLocalFilters: amount range and type, no limit
ApplyLocalFilters(txs, f) == SelectType(SelectMax(SelectMin(txs, f), f), f)

\* allTx.sort((a, b) => b.date.localeCompare(a.date)): a stable sort
InsertByDateDesc(sorted, x) ==
    LET later == {i \in 1..Len(sorted) : sorted[i].date < x.date}
        pos == IF later = {} THEN Len(sorted) + 1
               ELSE CHOOSE i \in later : \A j \in later : i <= j
    IN  SubSeq(sorted, 1, pos - 1) \o <<x>> \o SubSeq(sorted, pos, Len(sorted))

RECURSIVE SortByDateDesc(_)
SortByDateDesc(s) ==
    IF s = <<>> THEN <<>>
    ELSE InsertByDateDesc(SortByDateDesc(SubSeq(s, 1, Len(s) - 1)), s[Len(s)])

\* The cache keys of the three tools
AccountsKey(connId) == "accounts:" \o connId
BalanceKey(connId, accId) == "bal:" \o connId \o ":" \o accId
\* (mutant: the key leaves the date window out)
TxKeyNoWindow(connId, accId, f) == "tx:" \o connId \o ":" \o accId

TxKey(connId, accId, f) ==
    "tx:" \o connId \o ":" \o accId \o ":" \o ToString(Val(f.dateFrom))
        \o ":" \o ToString(Val(f.dateTo))

ToolKey(a, connId, accId) ==
    CASE a.tool = "list_accounts" -> AccountsKey(connId)
      [] a.tool = "get_balance" -> BalanceKey(connId, accId)
      [] a.tool = "list_transactions" -> TxKey(connId, accId, AggFilter(a))

\* (mutant: transaction lists are cached with the ttl of balances)
ToolTtlSwapped(a) ==
    CASE a.tool = "list_accounts" -> TtlAccounts
      [] a.tool = "get_balance" -> TtlBalances
      [] a.tool = "list_transactions" -> TtlBalances

ToolTtl(a) ==
    CASE a.tool = "list_accounts" -> TtlAccounts
      [] a.tool = "get_balance" -> TtlBalances
      [] a.tool = "list_transactions" -> TtlTransactions

ToolOp(a) ==
    CASE a.tool = "list_accounts" -> "listAccounts"
      [] a.tool = "get_balance" -> "getBalance"
      [] a.tool = "list_transactions" -> "listTransactions"

----------------------------------------------------------------------------
(* The providers behind the two connections *)

EBAccountIds == <<"a1", "a2">>
MockAccountIds == <<"mock-checking-001", "mock-savings-001">>

\* provider.listAccounts(conn.config)
ProviderAccounts(conn) ==
    LET uids == IF conn.provider = "mock" THEN MockAccountIds ELSE EBAccountIds
    IN  [i \in 1..Len(uids) |-> [uid |-> uids[i], connectionId |-> ""]]

\* generateMockTransactions(accountId): the expenses of the days 0 .. MaxDate-1
\* before today, newest first (none of these days is a 10th or a 25th)
RECURSIVE MockDay(_, _, _)
MockDay(accountId, day, i) ==
    IF i > day % 3 THEN <<>>
    ELSE << [id |-> "mock-tx-" \o accountId \o "-" \o ToString(day) \o "-" \o ToString(i),
             accountId |-> accountId, date |-> Today - day]
            @@ MockNormalize([kind |-> "expense", day |-> day, i |-> i]) >>
         \o MockDay(accountId, day, i + 1)

RECURSIVE MockDays(_, _)
MockDays(accountId, day) ==
    IF day >= MaxDate THEN <<>>
    ELSE MockDay(accountId, day, 0) \o MockDays(accountId, day + 1)

GenerateMockTransactions(accountId) == SortByDateDesc(MockDays(accountId, 0))

\* Enable Banking normalizeTransaction(raw, accountId)
EBTransaction(r, accountId) ==
    [id |-> ToString(r.id), accountId |-> accountId, date |-> r.date] @@ EBNormalize(r)

\* provider.listTransactions(conn.config, accId, {dateFrom, dateTo}); {} stands
\* for a rejected promise (the bank knows no such account)
ProviderTransactions(conn, accId, f) ==
    IF conn.provider = "mock"
    THEN {SelectSeq(GenerateMockTransactions(accId),
                    LAMBDA t : InWindow(t.date, f.dateFrom, f.dateTo))}
    ELSE IF accId \in DOMAIN bank
         THEN {MapSeq(LAMBDA r : EBTransaction(r, accId),
                      SelectSeq(bank[accId],
                                LAMBDA r : InWindow(r.date, f.dateFrom, f.dateTo)))}
         ELSE {}

\* Mock balances in minor units; an account the table does not hold gets 1000.00
MockAmounts(accountId) ==
    CASE accountId = "mock-checking-001" -> 1245067
      [] accountId = "mock-savings-001" -> 4500000
      [] OTHER -> 100000

\* provider.getBalance(conn.config, accId)
ProviderBalances(conn, accId) ==
    IF conn.provider = "mock"
    THEN {<< [accountId |-> accId, amount |-> MockAmounts(accId), type |-> "closingBooked"],
             [accountId |-> accId, amount |-> MockAmounts(accId) + 25000, type |-> "expected"] >>}
    ELSE IF accId \in DOMAIN bank
         THEN {<< [accountId |-> accId, amount |-> Len(bank[accId]) * Pow10(MaxScale),
                   type |-> "closingBooked"] >>}
         ELSE {}

\* What the provider call of the tool resolves to ({} = it rejects)
ProviderResult(a, conn, accId) ==
    CASE a.tool = "list_accounts" ->
           {MapSeq(LAMBDA acc : [acc EXCEPT !.connectionId = conn.id],
                   ProviderAccounts(conn))}
      [] a.tool = "get_balance" -> ProviderBalances(conn, accId)
      [] a.tool = "list_transactions" ->
           ProviderTransactions(conn, accId,
                                [dateFrom |-> AggFilter(a).dateFrom,
                                 dateTo |-> AggFilter(a).dateTo])

\* What the tool pushes onto its result list for one value
Pushed(a, value) ==
    IF a.tool = "list_transactions"
    THEN ApplyLocalFilters(value, AggFilter(a))
    ELSE value

----------------------------------------------------------------------------
(* One tool call after another, one step per cache lookup and provider call *)

AggConnIds == {"eb", "mock", "nope"}
AggAccountIds == {"a1", "nope"}
AggLimits == {0, 2}

\* The amount ranges of the calls: none, a minimum, a maximum
AggRanges ==
    {[amountMin |-> {}, amountMax |-> {}]}
    \cup {[amountMin |-> {a}, amountMax |-> {}] : a \in FilterAmounts}
    \cup {[amountMin |-> {}, amountMax |-> {a}] : a \in FilterAmounts}

\* The arguments the tool schemas admit
ToolArgs ==
    {[tool |-> "list_transactions", connectionId |-> c, accountId |-> a,
      dateFrom |-> d, dateTo |-> {}, amountMin |-> r.amountMin,
      amountMax |-> r.amountMax, type |-> t, limit |-> l] :
        c \in Opt(AggConnIds), a \in Opt(AggAccountIds), d \in Opt({Today}),
        r \in AggRanges, t \in {None, "debit"}, l \in Opt(AggLimits)}
    \cup [tool : {"get_balance"}, connectionId : Opt(AggConnIds),
          accountId : Opt(AggAccountIds), dateFrom : {{}}, dateTo : {{}},
          amountMin : {{}}, amountMax : {{}}, type : {None}, limit : {{}}]
    \cup [tool : {"list_accounts"}, connectionId : Opt(AggConnIds),
          accountId : {{}}, dateFrom : {{}}, dateTo : {{}},
          amountMin : {{}}, amountMax : {{}}, type : {None}, limit : {{}}]

\* The bank's records: two on account a1, in either date order, one on a2
Banks ==
    {[acc \in {"a1", "a2"} |->
        IF acc = "a1"
        THEN << ServerRecord("enable-banking", 1, ds[1]),
                ServerRecord("enable-banking", 2, ds[2]) >>
        ELSE << ServerRecord("enable-banking", 3, Today) >>] :
     ds \in {<<Today, 1>>, <<1, Today>>}}

\* The clock moves between calls, by one millisecond or by one of the ttls
TickSteps == {1, TtlBalances, TtlTransactions, TtlAccounts}

InitAgg ==
    /\ NormIdle /\ PageIdle /\ RetryIdle /\ CacheIdle /\ ProvIdle /\ IdIdle /\ FltIdle /\ CallIdle /\ RaceIdle /\ CbIdle /\ PlIdle /\ KeyIdle /\ AlIdle
    /\ args \in ToolArgs /\ bank \in Banks
    /\ apc = "idle" /\ conns = <<>> /\ ci = 0 /\ accountIds = <<>> /\ ai = 0
    /\ collected = <<>> /\ aoutcome = NoOutcome /\ providerCalls = <<>>
    /\ checks = <<>> /\ failedFetch = <<>> /\ ticks = 0

AccId == IF args.tool = "list_accounts" THEN None ELSE accountIds[ai]

Thrown(msg) == [status |-> "error", value |-> <<>>, error |-> msg]

\* The loop heads: the next account, the next connection, or the end
NextAccount ==
    IF ai < Len(accountIds)
    THEN /\ ai' = ai + 1 /\ apc' = "fetch" /\ UNCHANGED <<ci, accountIds>>
    ELSE /\ ai' = 0 /\ accountIds' = <<>>
         /\ IF ci < Len(conns)
            THEN ci' = ci + 1 /\ apc' = "conn"
            ELSE ci' = ci /\ apc' = "finish"

\* The tool is called: loadConfig, then getConnection or getAllConnections
CallStart ==
    /\ apc \in {"idle", "done"}
    /\ IF Has(args.connectionId)
          /\ GetConnection(Config, Val(args.connectionId)) = {}
       THEN /\ apc' = "done" /\ conns' = <<>> /\ ci' = 0
            /\ aoutcome' = Thrown("Connection not found")
       ELSE /\ conns' = IF Has(args.connectionId)
                        THEN <<Val(GetConnection(Config, Val(args.connectionId)))>>
                        ELSE GetAllConnections(Config)
            /\ ci' = 1 /\ apc' = "conn" /\ aoutcome' = NoOutcome
    /\ accountIds' = <<>> /\ ai' = 0 /\ collected' = <<>>
    /\ providerCalls' = <<>> /\ checks' = <<>> /\ failedFetch' = <<>>
    /\ UNCHANGED <<args, bank, ticks, cacheVars, aggOthers>>

\* list_transactions / get_balance: the account ids of the connection
ResolveAccounts ==
    /\ apc = "conn" /\ args.tool # "list_accounts"
    /\ IF Has(args.accountId)
       THEN /\ accountIds' = <<Val(args.accountId)>> /\ ai' = 1 /\ apc' = "fetch"
            /\ UNCHANGED providerCalls
       ELSE /\ apc' = "awaitAccounts"
            /\ providerCalls' = Append(providerCalls,
                   [op |-> "listAccounts", conn |-> conns[ci].id, acc |-> None])
            /\ UNCHANGED <<accountIds, ai>>
    /\ UNCHANGED <<args, bank, conns, ci, collected, aoutcome, checks, failedFetch,
                   ticks, cacheVars, aggOthers>>

\* provider.listAccounts resolves
AccountsReturn ==
    /\ apc = "awaitAccounts"
    /\ LET accounts == ProviderAccounts(conns[ci])
       IN  IF Len(accounts) = 0
           THEN /\ accountIds' = <<>> /\ ai' = 0
                /\ IF ci < Len(conns)
                   THEN ci' = ci + 1 /\ apc' = "conn"
                   ELSE ci' = ci /\ apc' = "finish"
           ELSE /\ accountIds' = MapSeq(LAMBDA a : a.uid, accounts)
                /\ ai' = 1 /\ apc' = "fetch" /\ ci' = ci
    /\ UNCHANGED <<args, bank, conns, collected, aoutcome, providerCalls, checks,
                   failedFetch, ticks, cacheVars, aggOthers>>

\* provider.listAccounts rejects (the mock provider never does)
AccountsFail ==
    /\ apc = "awaitAccounts" /\ conns[ci].provider # "mock"
    /\ apc' = "done" /\ aoutcome' = Thrown("provider error")
    /\ UNCHANGED <<args, bank, conns, ci, accountIds, ai, collected, providerCalls,
                   checks, failedFetch, ticks, cacheVars, aggOthers>>

\* cache.get(cacheKey) and `if (cached)`
CacheCheck ==
    /\ \/ apc = "conn" /\ args.tool = "list_accounts"
       \/ apc = "fetch" /\ args.tool # "list_accounts"
    /\ LET key == ToolKey(args, conns[ci].id, AccId)
           r == CacheGet(store, key, now)
       IN  /\ store' = r.store
           /\ checks' = Append(checks,
                  [conn |-> conns[ci].id, acc |-> AccId, key |-> key,
                   hit |-> Has(r.value),
                   age |-> IF key \in DOMAIN written
                           THEN {now - written[key].at} ELSE {}])
           /\ IF Has(r.value)
              THEN /\ collected' = collected \o Pushed(args, Val(r.value))
                   /\ NextAccount
                   /\ UNCHANGED providerCalls
              ELSE /\ apc' = "await"
                   /\ providerCalls' = Append(providerCalls,
                          [op |-> ToolOp(args), conn |-> conns[ci].id, acc |-> AccId])
                   /\ UNCHANGED <<ci, accountIds, ai, collected>>
    /\ UNCHANGED <<args, bank, conns, aoutcome, failedFetch, ticks, now, got,
                   written, aggOthers>>

\* The provider call resolves: cache.set, push
ProviderReturn ==
    /\ apc = "await"
    /\ ProviderResult(args, conns[ci], AccId) # {}
    /\ LET key == ToolKey(args, conns[ci].id, AccId)
           value == Val(ProviderResult(args, conns[ci], AccId))
       IN  /\ store' = CacheSet(store, key, value, ToolTtl(args), now)
           /\ written' = Put(written, key,
                             [value |-> value, at |-> now, ttl |-> ToolTtl(args)])
           /\ collected' = collected \o Pushed(args, value)
    /\ NextAccount
    /\ UNCHANGED <<args, bank, conns, aoutcome, providerCalls, checks, failedFetch,
                   ticks, now, got, aggOthers>>

\* The provider call rejects; nothing in the tool catches it
ProviderFail ==
    /\ apc = "await"
    /\ \/ conns[ci].provider # "mock"
       \/ ProviderResult(args, conns[ci], AccId) = {}
    /\ apc' = "done" /\ aoutcome' = Thrown("provider error")
    /\ failedFetch' = Append(failedFetch, [conn |-> conns[ci].id, acc |-> AccId])
    /\ UNCHANGED <<args, bank, conns, ci, accountIds, ai, collected, providerCalls,
                   checks, ticks, cacheVars, aggOthers>>

\* After the loops: list_transactions sorts and truncates, the others return
FinishCall ==
    /\ apc = "finish"
    /\ apc' = "done"
    /\ aoutcome' =
          [status |-> "ok", error |-> None,
           value |-> IF args.tool = "list_transactions"
                     THEN LET sorted == SortByDateDesc(collected)
                          IN  IF Truthy(args.limit)
                              THEN SliceTo(sorted, Val(args.limit))
                              ELSE sorted
                     ELSE collected]
    /\ UNCHANGED <<args, bank, conns, ci, accountIds, ai, collected, providerCalls,
                   checks, failedFetch, ticks, cacheVars, aggOthers>>

\* Time passes between two calls
Tick ==
    /\ apc = "done" /\ ticks < MaxTicks
    /\ \E d \in TickSteps : now' = now + d
    /\ ticks' = ticks + 1
    /\ UNCHANGED <<args, bank, apc, conns, ci, accountIds, ai, collected, aoutcome,
                   providerCalls, checks, failedFetch, store, got, written, aggOthers>>

NextAgg ==
    \/ CallStart
    \/ ResolveAccounts
    \/ AccountsReturn
    \/ AccountsFail
    \/ CacheCheck
    \/ ProviderReturn
    \/ ProviderFail
    \/ FinishCall
    \/ Tick

SpecAgg == InitAgg /\ [][NextAgg]_vars

\* The account ids a call targets on one connection
TargetedAccounts(conn) ==
    IF Has(args.accountId)
    THEN {Val(args.accountId)}
    ELSE {ProviderAccounts(conn)[i].uid : i \in 1..Len(ProviderAccounts(conn))}

\* C3: in a list_transactions call where the fetch of one (connection, account)
\* pair fails, the call does not throw, and every targeted account of every
\* targeted connection is still looked up.
C3_SiblingsStillRun ==
    (apc = "done" /\ args.tool = "list_transactions" /\ failedFetch # <<>>) =>
        /\ aoutcome.status = "ok"
        /\ \A c \in 1..Len(conns) : \A acc \in TargetedAccounts(conns[c]) :
              \E i \in 1..Len(checks) :
                  checks[i].conn = conns[c].id /\ checks[i].acc = acc

\* The cache durations as stated: 1 hour, 15 minutes, 5 minutes
StatedTtl(tool) ==
    CASE tool = "list_accounts" -> 60 * 60 * 1000
      [] tool = "list_transactions" -> 15 * 60 * 1000
      [] tool = "get_balance" -> 5 * 60 * 1000

\* C7: a lookup made less than the stated duration (1 h for account lists,
\* 15 min for transactions, 5 min for balances) after the entry was written is
\* served from the cache with no provider call for that data in the call; a
\* lookup made past that duration, or for data never fetched, calls the provider.
C7_CachedForStatedTtl ==
    \A i \in 1..Len(checks) :
        LET c == checks[i]
            called == \E j \in 1..Len(providerCalls) :
                         providerCalls[j] = [op |-> ToolOp(args), conn |-> c.conn,
                                             acc |-> c.acc]
        IN  /\ (Has(c.age) /\ Val(c.age) < StatedTtl(args.tool)) => (c.hit /\ ~called)
            /\ (Has(c.age) /\ Val(c.age) > StatedTtl(args.tool)) => (~c.hit /\ called)
            /\ ~Has(c.age) => (~c.hit /\ called)

C7_Witness ==
    /\ apc = "done" /\ aoutcome.status = "ok" /\ args.tool = "list_transactions"
    /\ Len(checks) = 2
    /\ checks[1].hit /\ Val(checks[1].age) > 0
    /\ ~checks[2].hit /\ Has(checks[2].age) /\ Val(checks[2].age) > StatedTtl(args.tool)

\* C8: a successful list_transactions returns the collected transactions in
\* date-descending order, and with a limit given at most `limit` of them, the
\* first ones of that order.
C8_SortedAndLimited ==
    (apc = "done" /\ args.tool = "list_transactions" /\ aoutcome.status = "ok") =>
        LET v == aoutcome.value
        IN  /\ \A i \in 1..(Len(v) - 1) : v[i].date >= v[i + 1].date
            /\ ~Has(args.limit) =>
                  /\ Len(v) = Len(collected)
                  /\ \A i \in 1..Len(collected) : \E j \in 1..Len(v) : v[j] = collected[i]
            /\ Has(args.limit) =>
                  /\ Len(v) <= Val(args.limit)
                  /\ \A i \in 1..Len(v) : \E j \in 1..Len(collected) : v[i] = collected[j]

\* The call names a connection that is not configured
ConnectionMissing ==
    /\ Has(args.connectionId)
    /\ \A i \in 1..Len(Config) : Config[i].id # Val(args.connectionId)

\* The call names an account that no targeted connection holds
AccountMissing ==
    /\ args.tool # "list_accounts" /\ Has(args.accountId) /\ conns # <<>>
    /\ \A c \in 1..Len(conns) : \A i \in 1..Len(ProviderAccounts(conns[c])) :
          ProviderAccounts(conns[c])[i].uid # Val(args.accountId)

\* C9: a call that names a connection that is not configured, or an account
\* that no targeted connection holds, ends with an error.
C9_MissingTargetIsError ==
    (apc = "done" /\ (ConnectionMissing \/ AccountMissing)) =>
        aoutcome.status = "error"

----------------------------------------------------------------------------
(* One adapter operation: parseConfig, key material, then the requests *)

Adapters == {"enable-banking", "plaid", "tink", "teller", "mock"}
Operations == {"listAccounts", "listTransactions", "getBalance"}

\* A config value as the adapters test it: undefined, "" or a non-empty value
FieldStates == {"absent", "empty", "set"}

IsTruthy(v) == v \notin {"absent", "empty"}

\* Plaid's ENVIRONMENTS
ENVIRONMENTS == {"sandbox", "development", "production"}

NoConfig ==
    [appId |-> "absent", privateKeyPath |-> "absent", sessionId |-> "absent",
     clientId |-> "absent", secret |-> "absent", accessToken |-> "absent",
     reportId |-> "absent", certificatePath |-> "absent",
     environment |-> "absent", accounts |-> "absent"]

\* The stored configs of each adapter; accounts "empty" is an empty array
RawConfigs(a) ==
    CASE a = "enable-banking" ->
           {[NoConfig EXCEPT !.appId = f1, !.privateKeyPath = f2, !.sessionId = f3,
                             !.accounts = f4] :
              f1 \in FieldStates, f2 \in FieldStates, f3 \in FieldStates,
              f4 \in FieldStates}
      [] a = "plaid" ->
           {[NoConfig EXCEPT !.clientId = f1, !.secret = f2, !.accessToken = f3,
                             !.environment = e] :
              f1 \in FieldStates, f2 \in FieldStates, f3 \in FieldStates,
              e \in {"absent", "empty", "sandbox", "production", "staging"}}
      [] a = "tink" ->
           {[NoConfig EXCEPT !.accessToken = f1, !.reportId = f2, !.accounts = f3] :
              f1 \in FieldStates, f2 \in FieldStates, f3 \in FieldStates}
      [] a = "teller" ->
           {[NoConfig EXCEPT !.accessToken = f1, !.certificatePath = f2,
                             !.privateKeyPath = f3] :
              f1 \in FieldStates, f2 \in FieldStates, f3 \in FieldStates}
      [] a = "mock" -> {NoConfig}

\* Tink: isReportOnly = !!reportId && !accessToken
IsReportOnly(c) == IsTruthy(c.reportId) /\ ~IsTruthy(c.accessToken)

\* (mutant: every config is accepted)
ParseConfigLax(a, c) == TRUE

\* parseConfig(raw) of each adapter: TRUE when it returns, FALSE when it throws
ParseConfig(a, c) ==
    CASE a = "enable-banking" ->
           IsTruthy(c.appId) /\ IsTruthy(c.privateKeyPath) /\ IsTruthy(c.sessionId)
      [] a = "plaid" ->
           /\ IsTruthy(c.clientId) /\ IsTruthy(c.secret) /\ IsTruthy(c.accessToken)
           /\ (IF IsTruthy(c.environment) THEN c.environment ELSE "sandbox")
                 \in ENVIRONMENTS
      [] a = "tink" -> IsTruthy(c.accessToken) \/ IsReportOnly(c)
      [] a = "teller" -> IsTruthy(c.accessToken)
      [] a = "mock" -> TRUE

\* The operation answers from the config alone, without a request
NoNetwork(a, o, c) ==
    CASE a = "mock" -> TRUE
      [] a = "enable-banking" -> o = "listAccounts" /\ c.accounts = "set"
      [] a = "tink" ->
           IsReportOnly(c) /\ (o # "listAccounts" \/ c.accounts # "absent")
      [] OTHER -> FALSE

\* generateJwt / createAgent read key files before the first request
ReadsKeyFile(a, c) ==
    CASE a = "enable-banking" -> TRUE
      [] a = "teller" -> IsTruthy(c.certificatePath) /\ IsTruthy(c.privateKeyPath)
      [] OTHER -> FALSE

InitProv ==
    /\ NormIdle /\ PageIdle /\ RetryIdle /\ CacheIdle /\ AggIdle /\ IdIdle /\ FltIdle /\ CallIdle /\ RaceIdle /\ CbIdle /\ PlIdle /\ KeyIdle /\ AlIdle
    /\ adapter \in Adapters /\ operation \in Operations
    /\ rawConfig \in RawConfigs(adapter)
    /\ opc = "called" /\ sent = 0 /\ tries = 0 /\ opResult = None

\* const c = parseConfig(config)
ParseStep ==
    /\ opc = "called"
    /\ IF ParseConfig(adapter, rawConfig)
       THEN opc' = "parsed" /\ opResult' = opResult
       ELSE opc' = "done" /\ opResult' = "config_error"
    /\ UNCHANGED <<adapter, operation, rawConfig, sent, tries, provOthers>>

\* Up to the first await: answer from the config, or read the key files (which
\* may throw) and start the first request
PrepareStep ==
    /\ opc = "parsed"
    /\ \/ /\ NoNetwork(adapter, operation, rawConfig)
          /\ opc' = "done" /\ opResult' = "ok" /\ tries' = tries
       \/ /\ ~NoNetwork(adapter, operation, rawConfig)
          /\ ReadsKeyFile(adapter, rawConfig)
          /\ opc' = "done" /\ opResult' = "key_error" /\ tries' = tries
       \/ /\ ~NoNetwork(adapter, operation, rawConfig)
          /\ opc' = "request" /\ opResult' = opResult /\ tries' = 1
    /\ UNCHANGED <<adapter, operation, rawConfig, sent, provOthers>>

\* One request goes out and is answered: the last page, a page with more to
\* follow, or a failure that httpFetch retries while attempts remain
RequestStep ==
    /\ opc = "request"
    /\ sent < MaxSent
    /\ sent' = sent + 1
    /\ \/ opc' = "done" /\ opResult' = "ok" /\ tries' = tries
       \/ opc' = "request" /\ opResult' = opResult /\ tries' = 1
       \/ /\ tries < AttemptBound(adapter)
          /\ opc' = "request" /\ opResult' = opResult /\ tries' = tries + 1
       \/ opc' = "done" /\ opResult' = "error" /\ tries' = tries
    /\ UNCHANGED <<adapter, operation, rawConfig, provOthers>>

NextProv ==
    \/ ParseStep
    \/ PrepareStep
    \/ RequestStep

SpecProv == InitProv /\ [][NextProv]_vars

\* The fields each adapter requires, by its schema and its error message
RequiredFields(a) ==
    CASE a = "enable-banking" -> {"appId", "privateKeyPath", "sessionId"}
      [] a = "plaid" -> {"clientId", "secret", "accessToken"}
      [] a = "tink" -> {"accessToken"}
      [] a = "teller" -> {"accessToken"}
      [] a = "mock" -> {}

\* A required field is missing or empty (Tink takes a reportId in place of the
\* access token), or Plaid's environment is given and is not one of its three
ConfigInvalid ==
    \/ /\ \E f \in RequiredFields(adapter) : rawConfig[f] \in {"absent", "empty"}
       /\ ~(adapter = "tink" /\ rawConfig.reportId = "set")
    \/ /\ adapter = "plaid"
       /\ rawConfig.environment \notin {"absent", "empty", "sandbox", "development", "production"}

----------------------------------------------------------------------------
(* The transaction id: the same raw record normalized in call after call *)

\* `a || b` on strings: undefined and "" are both falsy
StrTruthy(o) == Has(o) /\ Val(o) # ""

\* Enable Banking: entry_reference || `eb:${accountId}:${transaction_id || Date.now()}`
EBTransactionId(r, accountId, t) ==
    IF StrTruthy(r.entry_reference)
    THEN Val(r.entry_reference)
    ELSE "eb:" \o accountId \o ":"
         \o (IF StrTruthy(r.transaction_id) THEN Val(r.transaction_id) ELSE ToString(t))

\* Plaid: raw.transaction_id; Tink and Teller: raw.id
TransactionId(p, r, accountId, t) ==
    IF p = "enable-banking" THEN EBTransactionId(r, accountId, t) ELSE r.id

IdAccounts == {"acc1", "acc2"}

\* The raw records as far as the id goes
IdRecords(p) ==
    IF p = "enable-banking"
    THEN [entry_reference : Opt({"", "ref-1"}), transaction_id : Opt({"", "txn-5"}),
          id : {None}]
    ELSE [entry_reference : {{}}, transaction_id : {{}}, id : {"t-1", "t-2"}]

InitId ==
    /\ NormIdle /\ PageIdle /\ RetryIdle /\ CacheIdle /\ AggIdle /\ ProvIdle /\ FltIdle /\ CallIdle /\ RaceIdle /\ CbIdle /\ PlIdle /\ KeyIdle /\ AlIdle
    /\ idProvider \in PagedProviders /\ idRaw \in IdRecords(idProvider)
    /\ idAccount \in IdAccounts /\ idNow = 0 /\ idLog = <<>>

\* One more call meets the record and normalizes it
NormalizeAgain ==
    /\ Len(idLog) < MaxIdCalls
    /\ idLog' = Append(idLog, TransactionId(idProvider, idRaw, idAccount, idNow))
    /\ UNCHANGED <<idProvider, idRaw, idAccount, idNow, idOthers>>

\* Time passes between calls
IdTick ==
    /\ idNow < MaxIdNow
    /\ idNow' = idNow + 1
    /\ UNCHANGED <<idProvider, idRaw, idAccount, idLog, idOthers>>

NextId ==
    \/ NormalizeAgain
    \/ IdTick

SpecId == InitId /\ [][NextId]_vars

\* C11: every call that normalizes the same raw record for the same account
\* gives it the same id, also when the native id field is absent.
C11_StableIds ==
    \A i \in 1..Len(idLog) : \A j \in 1..Len(idLog) : idLog[i] = idLog[j]

----------------------------------------------------------------------------
(* The amount-range filter on both paths: applyLocalFilters and the adapters *)

\* The amounts of the fixture (28.34, 3500.00, 15.99, 89.50, 500.00; the salary
\* is the one credit) and two on the bounds of the range, in minor units of 1/100
FltAmounts == {-2834, 350000, -1599, -8950, -50000, -2000, 10000}

FltMin == 2000
FltMax == 10000

FltLists ==
    UNION {{[i \in 1..n |-> [id |-> i, amount |-> a[i],
                             type |-> IF a[i] < 0 THEN "debit" ELSE "credit"]] :
            a \in [1..n -> FltAmounts]} : n \in 0..MaxFltTxs}

InitFlt ==
    /\ NormIdle /\ PageIdle /\ RetryIdle /\ CacheIdle /\ AggIdle /\ ProvIdle /\ IdIdle /\ CallIdle /\ RaceIdle /\ CbIdle /\ PlIdle /\ KeyIdle /\ AlIdle
    /\ fltTxs \in FltLists
    /\ fltFilter \in [dateFrom : {{}}, dateTo : {{}}, amountMin : Opt({FltMin}),
                      amountMax : Opt({FltMax}), type : {None}, limit : {{}}]
    /\ fltPc = "ready" /\ fltResult = <<>>

\* The aggregator's applyLocalFilters
FilterInTool ==
    /\ fltPc = "ready"
    /\ fltResult' = ApplyLocalFilters(fltTxs, fltFilter)
    /\ fltPc' = "tool"
    /\ UNCHANGED <<fltTxs, fltFilter, fltOthers>>

\* The filters at the end of an adapter's listTransactions
FilterInAdapter ==
    /\ fltPc = "ready"
    /\ fltResult' = ProviderFilters(fltTxs, fltFilter)
    /\ fltPc' = "adapter"
    /\ UNCHANGED <<fltTxs, fltFilter, fltOthers>>

NextFlt ==
    \/ FilterInTool
    \/ FilterInAdapter

SpecFlt == InitFlt /\ [][NextFlt]_vars

\* The positions whose absolute amount lies in the closed range of the filter
InRange(f, t) ==
    /\ Has(f.amountMin) => Abs(t.amount) >= Val(f.amountMin)
    /\ Has(f.amountMax) => Abs(t.amount) <= Val(f.amountMax)

\* C12: the amount-range filter keeps exactly the transactions with
\* amountMin <= |amount| <= amountMax, whatever their sign or type, in their
\* original relative order.
C12_ClosedAbsRange ==
    fltPc \in {"tool", "adapter"} =>
        LET kept == {i \in 1..Len(fltTxs) : InRange(fltFilter, fltTxs[i])}
        IN  /\ Len(fltResult) = Cardinality(kept)
            /\ \A k \in 1..Len(fltResult) :
                  /\ fltResult[k].id \in kept
                  /\ fltResult[k] = fltTxs[fltResult[k].id]
            /\ \A k \in 1..(Len(fltResult) - 1) : fltResult[k].id < fltResult[k + 1].id

C12_Witness ==
    /\ fltPc = "adapter" /\ Has(fltFilter.amountMin) /\ Has(fltFilter.amountMax)
    /\ Len(fltTxs) = 3 /\ Len(fltResult) = 2
    /\ fltResult[1].amount = -2000 /\ fltResult[2].amount = 10000

----------------------------------------------------------------------------
(* list_transactions on one account, called again and again with new filters, *)
(* all within the lifetime of the cache entries                               *)

\* The calls differ in date window, amount range, type and limit only
SameTarget(a, b) ==
    /\ a.tool = b.tool /\ a.connectionId = b.connectionId /\ a.accountId = b.accountId

InitAggFilter ==
    /\ InitAgg
    /\ args.tool = "list_transactions"
    /\ args.connectionId \in {{"eb"}, {"mock"}}
    /\ args.accountId = {"a1"}

\* The next call arrives, with arguments of its own
CallAgain ==
    /\ \E a \in ToolArgs : SameTarget(a, args) /\ args' = a
    /\ apc \in {"idle", "done"}
    /\ conns' = <<Val(GetConnection(Config, Val(args.connectionId)))>>
    /\ ci' = 1 /\ apc' = "conn" /\ aoutcome' = NoOutcome
    /\ accountIds' = <<>> /\ ai' = 0 /\ collected' = <<>>
    /\ providerCalls' = <<>> /\ checks' = <<>> /\ failedFetch' = <<>>
    /\ UNCHANGED <<bank, ticks, cacheVars, aggOthers>>

NextAggFilter ==
    \/ CallAgain
    \/ ResolveAccounts
    \/ CacheCheck
    \/ ProviderReturn
    \/ ProviderFail
    \/ FinishCall

SpecAggFilter == InitAggFilter /\ [][NextAggFilter]_vars

\* What the call returns when every list is fetched from the provider
RECURSIVE FreshOfAccounts(_, _, _)
FreshOfAccounts(a, conn, accs) ==
    IF accs = <<>> THEN <<>>
    ELSE LET f == AggFilter(a)
             fetched == ProviderTransactions(conn, Head(accs),
                            [dateFrom |-> f.dateFrom, dateTo |-> f.dateTo])
         IN  ApplyLocalFilters(Val(fetched), f) \o FreshOfAccounts(a, conn, Tail(accs))

RECURSIVE FreshOfConnections(_, _)
FreshOfConnections(a, cs) ==
    IF cs = <<>> THEN <<>>
    ELSE FreshOfAccounts(a, Head(cs),
                         IF Has(a.accountId)
                         THEN <<Val(a.accountId)>>
                         ELSE MapSeq(LAMBDA acc : acc.uid, ProviderAccounts(Head(cs))))
         \o FreshOfConnections(a, Tail(cs))

FreshResult(a, cs) ==
    LET sorted == SortByDateDesc(FreshOfConnections(a, cs))
    IN  IF Truthy(a.limit) THEN SliceTo(sorted, Val(a.limit)) ELSE sorted

C13_PushedEqualsLocal ==
    ppc = "done" =>
        result = ProviderFilters(
                     MapSeq(NormalizeTransaction,
                            SelectSeq(serverTx,
                                      LAMBDA r : InWindow(r.date,
                                                          RequestFrom(provider, filter),
                                                          RequestTo(provider, filter)))),
                     filter)

----------------------------------------------------------------------------
(* The CallToolRequestSchema handler of the server *)

\* The keys of the `handlers` object literal
TOOLS ==
    {"list_accounts", "list_transactions", "search_transactions", "get_balance",
     "spending_summary"}

\* Names a request may carry: the tools, a name nothing answers to, and names
\* of properties every object literal inherits from Object.prototype
CallNames == TOOLS \cup {"no_such_tool", "constructor", "toString", "valueOf", "__proto__"}

\* handlers[name]: own properties first, then the prototype chain
\*   tool      - one of the five tool handlers
\*   Object    - the Object constructor: returns its argument as an object
\*   toString  - Object.prototype.toString: returns "[object Undefined]"
\*   valueOf   - Object.prototype.valueOf: a TypeError when `this` is undefined
\*   prototype - Object.prototype itself: truthy but not callable
HandlersLookup(name) ==
    CASE name \in TOOLS -> "tool"
      [] name = "constructor" -> "Object"
      [] name = "toString" -> "toString"
      [] name = "valueOf" -> "valueOf"
      [] name = "__proto__" -> "prototype"
      [] OTHER -> "undefined"

CallArgStates == {"absent", "empty", "valid", "invalid"}

\* What a tool handler may raise: a zod error for arguments the schema
\* rejects, an Error from a provider or the config, or a value that is no Error
ToolErrors == {"ZodError", "Connection not found", "HTTP 500", "not an Error"}

InitCall ==
    /\ NormIdle /\ PageIdle /\ RetryIdle /\ CacheIdle /\ AggIdle /\ ProvIdle /\ IdIdle /\ FltIdle /\ RaceIdle /\ CbIdle /\ PlIdle /\ KeyIdle /\ AlIdle
    /\ callName \in CallNames /\ callArgs \in CallArgStates
    /\ callPc = "received" /\ callRaised = {} /\ callResponse = NoResponse

\* const handler = handlers[name]; if (!handler) return the unknown_tool error
Dispatch ==
    /\ callPc = "received"
    /\ IF HandlersLookup(callName) = "undefined"
       THEN /\ callPc' = "responded"
            /\ callResponse' = [isError |-> TRUE, code |-> "unknown_tool",
                                message |-> "Unknown tool: " \o callName,
                                text |-> "error"]
       ELSE /\ callPc' = "awaiting"
            /\ callResponse' = callResponse
    /\ UNCHANGED <<callName, callArgs, callRaised, callOthers>>

\* try { result = await handler(args || {}) }: the handler resolves
HandlerResolves ==
    /\ callPc = "awaiting"
    /\ \/ HandlersLookup(callName) = "tool" /\ callArgs # "invalid"
       \/ HandlersLookup(callName) \in {"Object", "toString"}
    /\ callPc' = "responded"
    /\ callResponse' = [isError |-> FALSE, code |-> None, message |-> None,
                        text |-> "result"]
    /\ UNCHANGED <<callName, callArgs, callRaised, callOthers>>

\* catch (err): the handler raises; the message is err.message or String(err)
HandlerRaises ==
    /\ callPc = "awaiting"
    /\ \E e \in ToolErrors \cup {"TypeError"} :
          /\ CASE HandlersLookup(callName) = "tool" ->
                     IF callArgs = "invalid" THEN e = "ZodError"
                     ELSE e \in ToolErrors \ {"ZodError"}
                [] HandlersLookup(callName) \in {"valueOf", "prototype"} -> e = "TypeError"
                [] OTHER -> FALSE
          /\ callRaised' = {e}
          /\ callResponse' = [isError |-> TRUE, code |-> "tool_error", message |-> e,
                              text |-> "error"]
    /\ callPc' = "responded"
    /\ UNCHANGED <<callName, callArgs, callOthers>>

NextCall ==
    \/ Dispatch
    \/ HandlerResolves
    \/ HandlerRaises

SpecCall == InitCall /\ [][NextCall]_vars

\* C14: a call that names no tool, or whose handler raised, is answered with a
\* response flagged as an error that carries a kind and a message.
C14_FailuresAreStructured ==
    (callPc = "responded" /\ (callName \notin TOOLS \/ Has(callRaised))) =>
        /\ callResponse.isError
        /\ callResponse.code # None
        /\ callResponse.message # None

----------------------------------------------------------------------------
(* Two listTransactions calls on one account, interleaved at their awaits *)

\* The bank's transactions of account a1, newest first; the bank holds the
\* last rcServer of them
RaceBank ==
    <<[id |-> "t3", date |-> Today], [id |-> "t2", date |-> Today],
      [id |-> "t1", date |-> DefaultDateFrom]>>

RaceHeld(n) == SubSeq(RaceBank, Len(RaceBank) - n + 1, Len(RaceBank))

\* provider.listTransactions(conn.config, accId, {dateFrom, dateTo})
RaceFetch(n, f) == SelectSeq(RaceHeld(n), LAMBDA t : InWindow(t.date, f.dateFrom, f.dateTo))

RaceWindows ==
    {[NoFilter EXCEPT !.dateFrom = {DefaultDateFrom}, !.dateTo = {Today}],
     [NoFilter EXCEPT !.dateFrom = {Today}, !.dateTo = {Today}]}

RaceKey(c) == TxKey("eb", "a1", rcFilter[c])

InitRace ==
    /\ NormIdle /\ PageIdle /\ RetryIdle /\ CacheIdle /\ AggIdle /\ ProvIdle /\ IdIdle /\ FltIdle /\ CallIdle /\ CbIdle /\ PlIdle /\ KeyIdle /\ AlIdle
    /\ rcFilter \in [RaceCallers -> RaceWindows]
    /\ rcPc = [c \in RaceCallers |-> "start"]
    /\ rcTxs = [c \in RaceCallers |-> {}]
    /\ rcAll = [c \in RaceCallers |-> <<>>]
    /\ rcServer = 1 /\ rcWrites = <<>>

\* cached = cache.get(cacheKey): a hit ends the call, a miss awaits the provider
RaceCacheGet(c) ==
    /\ rcPc[c] = "start"
    /\ LET r == CacheGet(store, RaceKey(c), now)
       IN  /\ store' = r.store
           /\ IF Has(r.value)
              THEN /\ rcAll' = [rcAll EXCEPT ![c] = SortByDateDesc(Val(r.value))]
                   /\ rcPc' = [rcPc EXCEPT ![c] = "done"]
              ELSE /\ rcAll' = rcAll
                   /\ rcPc' = [rcPc EXCEPT ![c] = "fetching"]
    /\ UNCHANGED <<rcFilter, rcTxs, rcServer, rcWrites, now, raceOthers>>

\* The awaited provider.listTransactions resolves: cache.set, push, sort, return
RaceFetchReturn(c) ==
    /\ rcPc[c] = "fetching"
    /\ LET transactions == RaceFetch(rcServer, rcFilter[c])
       IN  /\ store' = CacheSet(store, RaceKey(c), transactions, TtlTransactions, now)
           /\ rcTxs' = [rcTxs EXCEPT ![c] = {transactions}]
           /\ rcAll' = [rcAll EXCEPT ![c] = SortByDateDesc(transactions)]
           /\ rcWrites' = Append(rcWrites, [by |-> c, key |-> RaceKey(c),
                                            value |-> transactions])
    /\ rcPc' = [rcPc EXCEPT ![c] = "done"]
    /\ UNCHANGED <<rcFilter, rcServer, now, raceOthers>>

\* A caller calls again with the same or another window
RaceCallAgain(c) ==
    /\ rcPc[c] = "done"
    /\ Len(rcWrites) < MaxRaceWrites
    /\ \E f \in RaceWindows : rcFilter' = [rcFilter EXCEPT ![c] = f]
    /\ rcPc' = [rcPc EXCEPT ![c] = "start"]
    /\ rcTxs' = [rcTxs EXCEPT ![c] = {}]
    /\ rcAll' = [rcAll EXCEPT ![c] = <<>>]
    /\ UNCHANGED <<rcServer, rcWrites, store, now, raceOthers>>

\* The bank books one more transaction
RaceBankBooks ==
    /\ rcServer < Len(RaceBank)
    /\ rcServer' = rcServer + 1
    /\ UNCHANGED <<rcFilter, rcPc, rcTxs, rcAll, rcWrites, store, now, raceOthers>>

NextRace ==
    \/ \E c \in RaceCallers : RaceCacheGet(c)
    \/ \E c \in RaceCallers : RaceFetchReturn(c)
    \/ \E c \in RaceCallers : RaceCallAgain(c)
    \/ RaceBankBooks

SpecRace == InitRace /\ [][NextRace]_vars

\* The last cache.set made on a key
LastWrite(key) ==
    LET ws == {i \in 1..Len(rcWrites) : rcWrites[i].key = key}
    IN  rcWrites[CHOOSE i \in ws : \A j \in ws : j <= i]

NoDuplicates(txs) ==
    \A i \in 1..Len(txs) : \A j \in 1..Len(txs) : txs[i].id = txs[j].id => i = j

\* C15: after any interleaving of two callers the entry of a key holds the
\* value of the latest write to it, and a caller that fetched returns exactly
\* the list its own fetch returned: a whole list the bank held for its window,
\* nothing lost, nothing twice.
C15_LastWriteWins ==
    /\ \A i \in 1..Len(rcWrites) :
          LET key == rcWrites[i].key
          IN  /\ key \in DOMAIN store
              /\ store[key].value = LastWrite(key).value
    /\ \A c \in RaceCallers :
          (rcPc[c] = "done" /\ Has(rcTxs[c])) =>
              /\ rcAll[c] = Val(rcTxs[c])
              /\ NoDuplicates(rcAll[c])
              /\ \E n \in 1..rcServer : rcAll[c] = RaceFetch(n, rcFilter[c])
    /\ \A c \in RaceCallers :
          (rcPc[c] = "done" /\ ~Has(rcTxs[c])) =>
              \E i \in 1..Len(rcWrites) :
                  rcWrites[i].key = RaceKey(c) /\ rcAll[c] = rcWrites[i].value

\* C15 witness: both callers missed the same key, both fetched and both wrote
\* it, with different lists; the entry holds the second list.
C15_Witness ==
    /\ rcPc = [c \in RaceCallers |-> "done"]
    /\ RaceKey(1) = RaceKey(2)
    /\ Len(rcWrites) = 2
    /\ rcWrites[1].by # rcWrites[2].by
    /\ rcWrites[1].value # rcWrites[2].value
    /\ store[RaceKey(1)].value = rcWrites[2].value
    /\ rcAll[rcWrites[1].by] = rcWrites[1].value

----------------------------------------------------------------------------
(* The pagination loops, request by request *)

\* The Teller loop has ended after a full page: the early stop on dateFrom
TellerStoppedEarly ==
    /\ provider = "teller" /\ ppc = "finish"
    /\ Len(FromIdPage(provider, filter, inflight)) = tellerPageSize

\* C16: the Teller loop stops after a full page only when dateFrom is set, the
\* page's last record is dated before it, and a record inside the date window
\* has been collected.
C16_EarlyStopAfterInWindow ==
    TellerStoppedEarly =>
        LET page == FromIdPage(provider, filter, inflight)
        IN  /\ Has(filter.dateFrom)
            /\ page[Len(page)].date < Val(filter.dateFrom)
            /\ allTx # <<>>

\* The cursor the response to a request carrying cursor c hands to the loop
\* ({} = no next page), for the adapters that follow a server token
NextToken(c) == TokenPage(provider, filter, c).next

\* The records of the responses to the first n requests, in request order
RECURSIVE PagesUpTo(_)
PagesUpTo(n) ==
    IF n = 0 THEN <<>>
    ELSE PagesUpTo(n - 1)
         \o MapSeq(NormalizeTransaction, TokenPage(provider, filter, requests[n]).transactions)

\* C17: in the Enable Banking and Tink loops at most one request is awaiting
\* its response, request k+1 carries the cursor of response k, and allTx is
\* the pages of the answered requests, joined in request order.
C17_SequentialPages ==
    provider \in {"enable-banking", "tink"} =>
        /\ \A k \in 1..(Len(requests) - 1) : requests[k + 1] = NextToken(requests[k])
        /\ (Len(requests) > 0) => (requests[1] = {})
        /\ (ppc = "await") =>
              /\ inflight = requests[Len(requests)]
              /\ allTx = PagesUpTo(Len(requests) - 1)
        /\ (ppc \in {"request", "finish", "done"}) => (allTx = PagesUpTo(Len(requests)))
        /\ (ppc = "request" /\ Len(requests) > 0) =>
              cursor = NextToken(requests[Len(requests)])

\* C17 witness: a second request is awaiting its response, carrying the token
\* of the first response, with exactly the first page collected.
C17_Witness ==
    /\ provider \in {"enable-banking", "tink"}
    /\ ppc = "await" /\ Len(requests) = 2
    /\ Has(requests[2]) /\ requests[2] = NextToken(requests[1])
    /\ allTx # <<>> /\ allTx = PagesUpTo(1)

\* Plaid: the server-reported total and the size of the page at an offset
PlaidTotal == OffsetPage(provider, filter, 0).total_transactions

PlaidCount(offset) == Len(OffsetPage(provider, filter, offset).transactions)

\* C18: the Plaid loop asks for offset 0 first and then for the number of
\* records received so far; it goes on while offset + returned count is below
\* the server's total and makes no request once it has reached the total.
C18_OffsetPagination ==
    (provider = "plaid" /\ Len(requests) > 0) =>
        /\ requests[1] = {0}
        /\ \A k \in 1..(Len(requests) - 1) :
              /\ Val(requests[k + 1]) = Val(requests[k]) + PlaidCount(Val(requests[k]))
              /\ Val(requests[k]) + PlaidCount(Val(requests[k])) < PlaidTotal
        /\ (ppc = "await") => (Val(inflight) = Len(allTx))
        /\ (ppc = "request") => (Val(cursor) = Len(allTx) /\ Len(allTx) < PlaidTotal)
        /\ (ppc \in {"finish", "done"}) =>
              LET last == Val(requests[Len(requests)])
              IN  /\ last + PlaidCount(last) >= PlaidTotal
                  /\ Len(allTx) = last + PlaidCount(last)

\* C18 witness: the Plaid loop has ended after two requests, the second at the
\* offset the first page left.
C18_Witness ==
    /\ provider = "plaid" /\ ppc = "finish"
    /\ Len(requests) = 2
    /\ requests[1] = {0} /\ requests[2] = {PlaidCount(0)}
    /\ PlaidCount(0) > 0 /\ Len(allTx) = PlaidTotal

\* Teller: the page that answers the k-th request
TellerPage(k) == FromIdPage(provider, filter, requests[k])

\* C19: the first Teller request carries no from_id, every later request
\* follows a full page and carries the id of that page's last record, and a
\* page of fewer than tellerPageSize records ends the loop.
C19_FromIdPagination ==
    (provider = "teller" /\ Len(requests) > 0) =>
        /\ requests[1] = {}
        /\ \A k \in 1..(Len(requests) - 1) :
              /\ Len(TellerPage(k)) = tellerPageSize
              /\ requests[k + 1] = {TellerPage(k)[tellerPageSize].id}
        /\ (ppc = "request") =>
              /\ Len(TellerPage(Len(requests))) = tellerPageSize
              /\ cursor = {TellerPage(Len(requests))[tellerPageSize].id}
        /\ (ppc = "await") => (inflight = requests[Len(requests)])

\* C19 witness: after a full page a second request carried the id of its last
\* record, got a short page, and the loop has ended.
C19_Witness ==
    /\ provider = "teller" /\ ppc = "finish"
    /\ Len(requests) = 2
    /\ requests[2] = {TellerPage(1)[tellerPageSize].id}
    /\ Len(TellerPage(2)) > 0 /\ Len(TellerPage(2)) < tellerPageSize

----------------------------------------------------------------------------
(* fetchWithRetry, attempt by attempt *)

\* C20: fetchWithRetry makes another attempt only after a rate-limited one,
\* makes at most 4 attempts, sleeps 5 s, 15 s and 30 s before the 2nd, 3rd and
\* 4th, and ends with the error of a rate-limited 4th attempt.
C20_BackoffAsStated ==
    caller = "fetchWithRetry" =>
        /\ \A i \in 1..(Len(history) - 1) : RateLimit(history[i])
        /\ (rpc = "wait") => RateLimit(history[Len(history)])
        /\ Len(history) <= Len(delays) + 1
        /\ waited = SubSeq(delays, 1, Len(waited))
        /\ (rpc = "http") => (Len(history) = Len(waited))
        /\ (rpc = "done") => (Len(history) = Len(waited) + 1)
        /\ (Len(history) = Len(delays) + 1 /\ RateLimit(history[Len(history)]))
              => (rpc = "done" /\ outcome = history[Len(history)])

\* C20 without its first part: the attempt bound, the delays and the end on a
\* rate-limited last attempt
C20_BoundedBackoff ==
    caller = "fetchWithRetry" =>
        /\ Len(history) <= Len(delays) + 1
        /\ waited = SubSeq(delays, 1, Len(waited))
        /\ (rpc = "http") => (Len(history) = Len(waited))
        /\ (rpc = "done") => (Len(history) = Len(waited) + 1)
        /\ (Len(history) = Len(delays) + 1 /\ RateLimit(history[Len(history)]))
              => (rpc = "done" /\ outcome = history[Len(history)])

----------------------------------------------------------------------------
(* The frame of the cache operations *)

\* The entry of a key as an optional value
Entry(st, key) == IF key \in DOMAIN st THEN {st[key]} ELSE {}

\* The step is a get(key) that found the entry expired and deleted it
LazyEviction(key) ==
    /\ got'.key = key /\ got'.value = {}
    /\ key \in DOMAIN store /\ now > store[key].expiresAt
    /\ key \notin DOMAIN store'

\* The step is a set(key, ...) made now
SetOn(key) ==
    /\ key \in DOMAIN written' /\ key \in DOMAIN store'
    /\ written'[key].at = now
    /\ store'[key] = [value |-> written'[key].value, expiresAt |-> now + written'[key].ttl]
    /\ got' = NoGet

\* The step is a clear()
Cleared == store' = <<>> /\ written' = <<>> /\ got' = NoGet

\* C22: the entry of a key changes or goes away only in a get on that key
\* that finds it expired, a set on that key, or a clear; time passing and
\* operations on other keys leave it as it is, expired or not.
C22_LazyEvictionOnly ==
    [][\A key \in CacheKeys :
          Entry(store', key) # Entry(store, key) =>
              LazyEviction(key) \/ SetOn(key) \/ Cleared]_vars

\* C22 witness: an expired entry is still in the store after time has passed
\* and another key has been read and written.
C22_Witness ==
    /\ "k1" \in DOMAIN store /\ now > store["k1"].expiresAt + 1
    /\ "k2" \in DOMAIN store /\ now <= store["k2"].expiresAt
    /\ got.key = "k2" /\ Has(got.value)

\* C23: in the aggregator an entry appears or changes only when a provider
\* call that followed a miss on its key has resolved, it is then the
\* provider's value with expiry now + ttl, and a lookup that hits leaves the
\* whole store as it was.
C23_SetOnlyAfterMissAndFetch ==
    [][/\ \A key \in DOMAIN store' :
             Entry(store', key) # Entry(store, key) =>
                 /\ apc = "await"
                 /\ checks[Len(checks)].key = key /\ ~checks[Len(checks)].hit
                 /\ ProviderResult(args, conns[ci], AccId) # {}
                 /\ store'[key] = [value |-> Val(ProviderResult(args, conns[ci], AccId)),
                                   expiresAt |-> now + StatedTtl(args.tool)]
       /\ (Len(checks') > Len(checks) /\ checks'[Len(checks')].hit) => store' = store]_vars

\* C23 witness: an entry that had expired was fetched and inserted again, and
\* a later lookup hit it.
C23_Witness ==
    /\ apc = "done" /\ Len(checks) > 0
    /\ LET c == checks[Len(checks)]
       IN  /\ c.hit /\ c.key \in DOMAIN store /\ c.key \in DOMAIN written
           /\ written[c.key].at > 0
           /\ store[c.key].expiresAt = written[c.key].at + StatedTtl(args.tool)

----------------------------------------------------------------------------
(* waitForCallback: the local OAuth callback server *)

expectedState == "s1"

\* The requests the server may receive: a path and the error, state and code
\* query parameters ({} = the parameter is missing)
CallbackRequests ==
    [path : {"/callback", "/other"}, error : Opt({"", "access_denied"}),
     state : Opt({expectedState, "s2"}), code : Opt({"", "c1"})]

\* `if (error)`, `if (!code)`: a missing parameter and "" are both falsy
ParamTruthy(p) == Has(p) /\ Val(p) # ""

\* (mutant: the state parameter is not compared)
CallbackVerdictNoState(r) ==
    IF ParamTruthy(r.error)
    THEN [status |-> "rejected", code |-> None, error |-> "Bank authorization failed"]
    ELSE IF ~ParamTruthy(r.code)
         THEN [status |-> "rejected", code |-> None, error |-> "No authorization code"]
         ELSE [status |-> "resolved", code |-> Val(r.code), error |-> None]

\* What the request handler passes to settle for a /callback request
CallbackVerdict(r) ==
    IF ParamTruthy(r.error)
    THEN [status |-> "rejected", code |-> None, error |-> "Bank authorization failed"]
    ELSE IF r.state # {expectedState}
         THEN [status |-> "rejected", code |-> None, error |-> "State mismatch"]
         ELSE IF ~ParamTruthy(r.code)
              THEN [status |-> "rejected", code |-> None, error |-> "No authorization code"]
              ELSE [status |-> "resolved", code |-> Val(r.code), error |-> None]

\* (mutant: settle has no settled guard)
SettleEveryTime(value) ==
    /\ settled' = TRUE
    /\ cbTimer' = IF cbTimer = "armed" THEN "cleared" ELSE cbTimer
    /\ cbServer' = "closed"
    /\ cbOutcome' = value
    /\ cbCalls' = Append(cbCalls, value)

\* settle(fn, value): a no-op once settled; otherwise cleanup() and fn(value)
Settle(value) ==
    IF settled
    THEN UNCHANGED <<settled, cbTimer, cbServer, cbOutcome, cbCalls>>
    ELSE /\ settled' = TRUE
         /\ cbTimer' = IF cbTimer = "armed" THEN "cleared" ELSE cbTimer
         /\ cbServer' = "closed"
         /\ cbOutcome' = value
         /\ cbCalls' = Append(cbCalls, value)

InitCallback ==
    /\ NormIdle /\ PageIdle /\ RetryIdle /\ CacheIdle /\ AggIdle /\ ProvIdle /\ IdIdle /\ FltIdle /\ CallIdle /\ RaceIdle /\ PlIdle /\ KeyIdle /\ AlIdle
    /\ cbServer = "starting" /\ cbTimer = "unset" /\ settled = FALSE
    /\ cbOutcome = NoCallback /\ cbCalls = <<>> /\ cbRequests = <<>>

\* server.listen's callback: the timeout is armed
Listening ==
    /\ cbServer = "starting"
    /\ cbServer' = "listening" /\ cbTimer' = "armed"
    /\ UNCHANGED <<settled, cbOutcome, cbCalls, cbRequests, cbOthers>>

\* The request handler.  A closed server takes no new connection, but a
\* connection opened before the close can still carry a request.
HandleRequest ==
    /\ \/ cbServer = "listening"
       \/ cbServer = "closed" /\ Len(cbRequests) > 0
    /\ Len(cbRequests) < MaxCallbackRequests
    /\ \E r \in CallbackRequests :
          IF r.path # "/callback"
          THEN /\ cbRequests' = Append(cbRequests, [request |-> r, status |-> 404])
               /\ UNCHANGED <<settled, cbTimer, cbServer, cbOutcome, cbCalls>>
          ELSE /\ cbRequests' = Append(cbRequests, [request |-> r, status |-> 200])
               /\ Settle(CallbackVerdict(r))
    /\ UNCHANGED cbOthers

\* server.on("error"): the port is in use, or another server error
ServerError ==
    /\ cbServer \in {"starting", "listening"}
    /\ \E e \in {"Port is already in use", "server error"} :
          /\ cbServer = "listening" => e = "server error"
          /\ Settle([status |-> "rejected", code |-> None, error |-> e])
    /\ UNCHANGED <<cbRequests, cbOthers>>

\* The timer fires
Timeout ==
    /\ cbTimer = "armed"
    /\ IF settled
       THEN cbTimer' = "fired" /\ UNCHANGED <<settled, cbServer, cbOutcome, cbCalls>>
       ELSE /\ settled' = TRUE /\ cbTimer' = "fired" /\ cbServer' = "closed"
            /\ cbOutcome' = [status |-> "rejected", code |-> None,
                             error |-> "Authorization timed out"]
            /\ cbCalls' = Append(cbCalls, cbOutcome')
    /\ UNCHANGED <<cbRequests, cbOthers>>

NextCallback ==
    \/ Listening
    \/ HandleRequest
    \/ ServerError
    \/ Timeout

SpecCallback == InitCallback /\ [][NextCallback]_vars

\* The /callback requests handled so far, and the first of them
CallbackIndexes == {i \in 1..Len(cbRequests) : cbRequests[i].request.path = "/callback"}

FirstCallback ==
    cbRequests[CHOOSE i \in CallbackIndexes : \A j \in CallbackIndexes : i <= j].request

\* C25: the wait resolves only with the non-empty code of a /callback request
\* that carries no bank error and the expected state; a /callback request
\* whose state is missing or different leaves the wait rejected, with no code.
C25_CodeOnlyWithExpectedState ==
    /\ cbOutcome.status = "resolved" =>
          /\ CallbackIndexes # {}
          /\ ~ParamTruthy(FirstCallback.error)
          /\ FirstCallback.state = {expectedState}
          /\ ParamTruthy(FirstCallback.code)
          /\ cbOutcome.code = Val(FirstCallback.code)
    /\ (CallbackIndexes # {} /\ FirstCallback.state # {expectedState}) =>
          (cbOutcome.status = "rejected" /\ cbOutcome.code = None)

\* C25 witness: a request to another path, then a /callback request with the
\* expected state and a code, resolved the wait with that code.
C25_Witness ==
    /\ cbOutcome = [status |-> "resolved", code |-> "c1", error |-> None]
    /\ Len(cbRequests) = 2
    /\ cbRequests[1].status = 404
    /\ cbRequests[2].request.state = {expectedState}

\* The request handled in this step, if any
Handled == Len(cbRequests') > Len(cbRequests)

LastRequest == cbRequests'[Len(cbRequests')].request

\* C26: the wait settles at most once, with the outcome of the event that
\* comes first (a /callback request, a server error, the timeout); from then on
\* the server is closed, the timer is not armed and no later event changes the
\* outcome; a request to another path gets a 404 and settles nothing.
C26_SettlesOnce ==
    /\ [](/\ Len(cbCalls) <= 1
          /\ settled <=> Len(cbCalls) = 1
          /\ settled => (cbServer = "closed" /\ cbTimer # "armed" /\ cbOutcome = cbCalls[1])
          /\ ~settled => cbOutcome = NoCallback
          /\ \A i \in 1..Len(cbRequests) :
                cbRequests[i].status = IF cbRequests[i].request.path = "/callback"
                                       THEN 200 ELSE 404)
    /\ [][/\ settled => (settled' /\ cbOutcome' = cbOutcome /\ cbCalls' = cbCalls)
          /\ (Handled /\ LastRequest.path # "/callback")
                => (settled' = settled /\ cbOutcome' = cbOutcome /\ cbServer' = cbServer
                    /\ cbTimer' = cbTimer)
          /\ (~settled /\ Handled /\ LastRequest.path = "/callback")
                => (settled' /\ cbOutcome' = CallbackVerdict(LastRequest))
          /\ (~settled /\ ~Handled /\ cbTimer' = "fired")
                => (settled' /\ cbOutcome'.error = "Authorization timed out")
          /\ (~settled /\ settled' /\ ~Handled /\ cbTimer' # "fired")
                => cbOutcome'.error \in {"Port is already in use", "server error"}]_vars

\* C26 witness: the wait timed out, and a /callback request with the expected
\* state and a code that came afterwards left the outcome as it was.
C26_Witness ==
    /\ cbTimer = "fired" /\ cbServer = "closed"
    /\ cbOutcome.error = "Authorization timed out"
    /\ Len(cbRequests) = 2 /\ cbRequests[1].status = 404
    /\ CallbackVerdict(cbRequests[2].request).status = "resolved"

----------------------------------------------------------------------------
(* The Plaid loop against a server whose pages may be short or empty *)

InitPlaidLoop ==
    /\ NormIdle /\ PageIdle /\ RetryIdle /\ CacheIdle /\ AggIdle /\ ProvIdle /\ IdIdle /\ FltIdle /\ CallIdle /\ RaceIdle /\ CbIdle /\ KeyIdle /\ AlIdle
    /\ plTotal \in 0..MaxPlaidTotal
    /\ plOffset = 0 /\ plPc = "request" /\ plPage = 0

\* plaidPost(pc, "/transactions/get", {..., options: {count, offset}})
PlaidPost ==
    /\ plPc = "request"
    /\ plPc' = "await"
    /\ UNCHANGED <<plTotal, plOffset, plPage, plOthers>>

\* The response: any number of records up to the page size and to what is
\* left, none included; then offset += length and the test against the total
PlaidPage ==
    /\ plPc = "await"
    /\ \E n \in 0..Min(plaidPageSize, plTotal - plOffset) :
          /\ plPage' = n
          /\ plOffset' = plOffset + n
          /\ plPc' = IF plOffset + n >= plTotal THEN "done" ELSE "request"
    /\ UNCHANGED <<plTotal, plOthers>>

NextPlaidLoop ==
    \/ PlaidPost
    \/ PlaidPage

SpecPlaidLoop == InitPlaidLoop /\ [][NextPlaidLoop]_vars /\ WF_vars(NextPlaidLoop)

\* C27: the Plaid loop ends, whatever pages the server sends for its fixed
\* total.
C27_LoopEnds == <>(plPc = "done")

----------------------------------------------------------------------------
(* httpFetch, request by request *)

Is4xx(e) == e.kind = "http" /\ e.status \div 100 = 4

\* C28: one httpFetch call makes at least one and at most `retries` requests,
\* makes none after a success or a 4xx response, and ends with the body of
\* the successful request or, when none succeeded, the error of the last one.
C28_HttpFetchAttempts ==
    caller \in {"enable-banking", "plaid", "tink"} =>
        /\ Len(history) <= Retries(caller)
        /\ \A i \in 1..(Len(history) - 1) : history[i] # Ok /\ ~Is4xx(history[i])
        /\ (rpc = "done") =>
              /\ Len(history) >= 1
              /\ outcome = history[Len(history)]
              /\ (outcome # Ok /\ ~IncludesHTTP4(outcome)) => Len(history) = Retries(caller)

\* C28 witness: a second request followed a network error and succeeded.
C28_Witness ==
    /\ caller = "plaid" /\ rpc = "done" /\ Len(history) = 2
    /\ history[1].kind = "network" /\ outcome = Ok

----------------------------------------------------------------------------
(* The cache keys as strings *)

\* `tx:${conn.id}:${accId}:${dateFrom}:${dateTo}` with the dates as the
\* strings the caller sent
TxKeyText(connId, accId, dateFrom, dateTo) ==
    "tx:" \o connId \o ":" \o accId \o ":" \o dateFrom \o ":" \o dateTo

\* Connection ids are slugs of [a-z0-9-]; accountId, dateFrom and dateTo are
\* z.string() arguments, any text
KeyRequests ==
    [conn : {"c1", "c2"}, acc : {"a", "a:b"}, dateFrom : {"b:c", "c", "2024-01-01"},
     dateTo : {"d"}]

RequestKey(tool, r) ==
    CASE tool = "list_accounts" -> AccountsKey(r.conn)
      [] tool = "get_balance" -> BalanceKey(r.conn, r.acc)
      [] tool = "list_transactions" -> TxKeyText(r.conn, r.acc, r.dateFrom, r.dateTo)

InitKey ==
    /\ NormIdle /\ PageIdle /\ RetryIdle /\ CacheIdle /\ AggIdle /\ ProvIdle /\ IdIdle /\ FltIdle /\ CallIdle /\ RaceIdle /\ CbIdle /\ PlIdle /\ AlIdle
    /\ keyTool \in {"list_accounts", "get_balance", "list_transactions"}
    /\ keyReqs \in KeyRequests \X KeyRequests
    /\ keyPc = "ready" /\ keys = <<None, None>>

\* The two requests each build their cacheKey
BuildKeys ==
    /\ keyPc = "ready"
    /\ keys' = <<RequestKey(keyTool, keyReqs[1]), RequestKey(keyTool, keyReqs[2])>>
    /\ keyPc' = "done"
    /\ UNCHANGED <<keyTool, keyReqs, keyOthers>>

NextKey == BuildKeys

SpecKey == InitKey /\ [][NextKey]_vars

\* What a tool's cached value depends on
KeyTarget(tool, r) ==
    CASE tool = "list_accounts" -> <<r.conn>>
      [] tool = "get_balance" -> <<r.conn, r.acc>>
      [] tool = "list_transactions" -> <<r.conn, r.acc, r.dateFrom, r.dateTo>>

\* C29: two requests to a tool that differ in connection, account or (for
\* transactions) date window get different cache keys.
C29_KeysInjective ==
    (keyPc = "done" /\ KeyTarget(keyTool, keyReqs[1]) # KeyTarget(keyTool, keyReqs[2]))
        => keys[1] # keys[2]

ColonFree(r) == r.acc # "a:b" /\ r.dateFrom # "b:c"

\* C29 for requests none of whose parts holds a ":"
C29_KeysInjectiveColonFree ==
    (keyPc = "done" /\ ColonFree(keyReqs[1]) /\ ColonFree(keyReqs[2])
        /\ KeyTarget(keyTool, keyReqs[1]) # KeyTarget(keyTool, keyReqs[2]))
        => keys[1] # keys[2]

----------------------------------------------------------------------------
(* The arrays behind one cache entry: which operation of the tools writes
   into which array *)

\* The lists a provider may return, in any order
AliasRecords ==
    {[id |-> "t1", date |-> 1, amount |-> -100, type |-> "debit"],
     [id |-> "t2", date |-> 2, amount |-> 300, type |-> "credit"],
     [id |-> "t3", date |-> 2, amount |-> -200, type |-> "debit"]}

AliasLists ==
    {<<>>} \cup {<<a>> : a \in AliasRecords}
           \cup {l \in {<<a, b>> : a \in AliasRecords, b \in AliasRecords} : l[1] # l[2]}

\* The account lists a provider may return: providers leave connectionId empty
AliasAccounts ==
    {[uid |-> "a1", connectionId |-> ""], [uid |-> "a2", connectionId |-> ""]}

AliasAccountLists ==
    {<<>>} \cup {<<a>> : a \in AliasAccounts}
           \cup {l \in {<<a, b>> : a \in AliasAccounts, b \in AliasAccounts} : l[1] # l[2]}

ProviderLists(tool) == IF tool = "list_accounts" THEN AliasAccountLists ELSE AliasLists

\* The id of the connection the entry belongs to
AliasConn == "c1"

\* accounts.map((a) => ({ ...a, connectionId: conn.id })): a new array of new records
Tagged(list) ==
    IF list = <<>> THEN <<>>
    ELSE [i \in DOMAIN list |-> [list[i] EXCEPT !.connectionId = AliasConn]]

\* The array handed to cache.set for the list the provider returned
Stored(tool, list) == IF tool = "list_accounts" THEN Tagged(list) ELSE list

AliasFilters ==
    {[NoFilter EXCEPT !.amountMin = m, !.limit = l] : m \in Opt({200}), l \in Opt({1})}

\* applyLocalFilters(txs, f): Array.prototype.filter builds a new array; with no
\* filter set the function returns txs itself
FilterArray(h, src, f) ==
    IF Has(f.amountMin) \/ Has(f.amountMax) \/ f.type # None
    THEN [ref |-> "filtered", heap |-> [h EXCEPT !.filtered = ApplyLocalFilters(h[src], f)]]
    ELSE [ref |-> src, heap |-> h]

\* (mutant: the call takes the array it was handed as its own accumulator)
CollectByAlias(h, all, src) == [ref |-> src, heap |-> h]

\* all.push(...src): the elements of src are appended to the array `all`
Collect(h, all, src) == [ref |-> all, heap |-> [h EXCEPT ![all] = @ \o h[src]]]

\* The part of the loop body after the value is at hand, for the array
\* "cached": filter (list_transactions only) and push
Serve(h) ==
    IF alTool = "list_transactions"
    THEN LET fr == FilterArray(h, "cached", alFilter)
         IN  Collect(fr.heap, alAll, fr.ref)
    ELSE Collect(h, alAll, "cached")

InitAlias ==
    /\ NormIdle /\ PageIdle /\ RetryIdle /\ CacheIdle /\ AggIdle /\ ProvIdle /\ IdIdle /\ FltIdle /\ CallIdle /\ RaceIdle /\ CbIdle /\ PlIdle /\ KeyIdle
    /\ alTool \in {"list_transactions", "get_balance", "list_accounts"}
    /\ alFilter = NoFilter /\ alPc = "start" /\ alHeap = NoArrays
    /\ alAll = "allTx" /\ alReturned = "allTx" /\ alLive = FALSE
    /\ alInserted = <<>> /\ alServed = None /\ alCalls = 0

\* The tool is called: const allTx = []
AliasCall ==
    /\ alPc \in {"start", "done"} /\ alCalls < MaxAliasCalls
    /\ alFilter' \in IF alTool = "list_transactions" THEN AliasFilters ELSE {NoFilter}
    /\ alHeap' = [alHeap EXCEPT !.allTx = <<>>, !.filtered = <<>>, !.result = <<>>]
    /\ alAll' = "allTx" /\ alReturned' = "allTx" /\ alServed' = None
    /\ alCalls' = alCalls + 1 /\ alPc' = "lookup"
    /\ UNCHANGED <<alTool, alLive, alInserted, alOthers>>

\* cache.get returns the entry's array: filter, push
AliasHit ==
    /\ alPc = "lookup" /\ alLive
    /\ LET c == Serve(alHeap)
       IN  alHeap' = c.heap /\ alAll' = c.ref
    /\ alServed' = "hit" /\ alPc' = "finish"
    /\ UNCHANGED <<alTool, alFilter, alReturned, alLive, alInserted, alCalls, alOthers>>

\* cache.get returns undefined (no entry, or an expired one): the provider's
\* array (list_accounts: its tagged copy) is stored by cache.set, then filter, push
AliasMiss ==
    /\ alPc = "lookup"
    /\ \E list \in ProviderLists(alTool) :
          LET c == Serve([alHeap EXCEPT !.cached = Stored(alTool, list)])
          IN  /\ alHeap' = c.heap /\ alAll' = c.ref
              /\ alInserted' = list
    /\ alLive' = TRUE
    /\ alServed' = "miss" /\ alPc' = "finish"
    /\ UNCHANGED <<alTool, alFilter, alReturned, alCalls, alOthers>>

\* After the loops: list_transactions sorts allTx in place and returns it or
\* a slice of it; the other tools return their accumulator
AliasFinish ==
    /\ alPc = "finish"
    /\ IF alTool = "list_transactions"
       THEN LET sorted == [alHeap EXCEPT ![alAll] = SortByDateDesc(@)]
            IN  IF Truthy(alFilter.limit)
                THEN /\ alHeap' = [sorted EXCEPT !.result =
                                       SliceTo(sorted[alAll], Val(alFilter.limit))]
                     /\ alReturned' = "result"
                ELSE /\ alHeap' = sorted
                     /\ alReturned' = alAll
       ELSE /\ alHeap' = alHeap
            /\ alReturned' = alAll
    /\ alPc' = "done"
    /\ UNCHANGED <<alTool, alFilter, alAll, alLive, alInserted, alServed, alCalls, alOthers>>

NextAlias ==
    \/ AliasCall
    \/ AliasHit
    \/ AliasMiss
    \/ AliasFinish

SpecAlias == InitAlias /\ [][NextAlias]_vars

\* C30 as stated: whatever calls were served, a live cache entry holds
\* exactly the list, same elements and same order, that the provider returned
\* when the entry was inserted.
C30_HoldsProviderList == alLive => alHeap.cached = alInserted

\* C30 amended: whatever calls were served, a live cache entry holds exactly
\* the list that cache.set stored when the entry was inserted: the provider's
\* list for transactions and balances, and for accounts the provider's list
\* with every account's connectionId set to the connection's id.
C30_CachedListUntouched == alLive => alHeap.cached = Stored(alTool, alInserted)

\* C30 witness: a list_transactions call with no amount filter and a limit was
\* served from an entry whose list is not in date order; it returned one
\* record of the sorted list and the entry still holds the list as inserted.
C30_Witness ==
    /\ alTool = "list_transactions" /\ alPc = "done" /\ alServed = "hit"
    /\ ~Has(alFilter.amountMin) /\ Truthy(alFilter.limit)
    /\ Len(alInserted) = 2 /\ alInserted[1].date < alInserted[2].date
    /\ alHeap.allTx = SortByDateDesc(alInserted) /\ alHeap.allTx # alInserted
    /\ alHeap[alReturned] = <<alInserted[2]>>
    /\ alHeap.cached = alInserted

----------------------------------------------------------------------------
(* normalizeTransaction applied to one raw record *)

InitNorm == raw \in RawRecords /\ tx = NoTx /\ PageIdle /\ RetryIdle /\ CacheIdle /\ AggIdle /\ ProvIdle /\ IdIdle /\ FltIdle /\ CallIdle /\ RaceIdle /\ CbIdle /\ PlIdle /\ KeyIdle /\ AlIdle

NormalizeEB ==
    /\ tx = NoTx /\ raw.provider = "enable-banking"
    /\ tx' = EBNormalize(raw) /\ UNCHANGED <<raw, normOthers>>

NormalizePlaid ==
    /\ tx = NoTx /\ raw.provider = "plaid"
    /\ tx' = PlaidNormalize(raw) /\ UNCHANGED <<raw, normOthers>>

NormalizeTink ==
    /\ tx = NoTx /\ raw.provider = "tink"
    /\ tx' = TinkNormalize(raw) /\ UNCHANGED <<raw, normOthers>>

NormalizeTeller ==
    /\ tx = NoTx /\ raw.provider = "teller"
    /\ tx' = TellerNormalize(raw) /\ UNCHANGED <<raw, normOthers>>

NormalizeMock ==
    /\ tx = NoTx /\ raw.provider = "mock"
    /\ tx' = MockNormalize(raw) /\ UNCHANGED <<raw, normOthers>>

NextNorm ==
    \/ NormalizeEB
    \/ NormalizePlaid
    \/ NormalizeTink
    \/ NormalizeTeller
    \/ NormalizeMock

SpecNorm == InitNorm /\ [][NextNorm]_vars

\* C1: every normalized transaction has a strictly negative amount if and
\* only if its type is "debit", for every adapter and every amount encoding.
C1_SignIffDebit == tx # NoTx => ((tx.amount < 0) <=> (tx.type = "debit"))

\* C21: a Tink record with the neutral DEFAULT code takes its polarity from the
\* sign of the parsed magnitude (negative: debit with that negative amount;
\* otherwise credit with that amount), and a DEBIT record with an unsigned
\* magnitude gets the magnitude negated.
C21_TinkPolarity ==
    (tx # NoTx /\ raw.provider = "tink") =>
        LET m == TinkParseAmount(raw.amount)
        IN  /\ (raw.type = "DEFAULT" /\ m < 0) => (tx.type = "debit" /\ tx.amount = m)
            /\ (raw.type = "DEFAULT" /\ m >= 0) => (tx.type = "credit" /\ tx.amount = m)
            /\ (raw.type = "DEBIT" /\ m >= 0) => (tx.type = "debit" /\ tx.amount = -m)

\* C21 witness: a DEFAULT record with a negative magnitude has been normalized
\* to a debit.
C21_Witness ==
    /\ tx # NoTx /\ raw.provider = "tink" /\ raw.type = "DEFAULT"
    /\ TinkParseAmount(raw.amount) < 0
    /\ tx.type = "debit" /\ tx.amount < 0

\* unscaledValue x 10^(-scale), in minor units
FixedPoint(a) == a.unscaledValue * Pow10(MaxScale - a.scale)

C24_FixedPointTyped ==
    (tx # NoTx /\ raw.provider = "tink" /\ (raw.amount.nested \/ raw.amount.scaleIsNumber)) =>
        /\ Abs(tx.amount) = Abs(FixedPoint(raw.amount))
        /\ (raw.type = "DEBIT" /\ raw.amount.unscaledValue > 0)
              => tx.amount = -FixedPoint(raw.amount)

====
